---- MODULE Spec2Model ----
(***************************************************************************)
(* Table-structure synchronisation of the hamster MySQL manager.           *)
(*                                                                         *)
(* The TableDesigner component (src/src/components/TableDesigner.tsx)      *)
(* owns the editable snapshot (columns, indexes, foreignKeys,              *)
(* tableOptions, tableName); saveTableStructure (src/electron/db.ts)       *)
(* turns it into one CREATE TABLE or one ALTER TABLE statement and sends   *)
(* it to the database.  A statement is a sequence of clauses; a clause is  *)
(* a record [op, name, old, def] where def is the token sequence of the    *)
(* rendered definition.                                                    *)
(***************************************************************************)
EXTENDS Integers, Sequences, FiniteSets, TLC

VARIABLES
  table,               \* prop table of the designer ("" = new table)
  tableName,           \* useState tableName
  isNewTable,          \* useState isNewTable
  columns,             \* useState columns
  indexes,             \* useState indexes
  foreignKeys,         \* useState foreignKeys
  tableOptions,        \* useState tableOptions
  originalColumns,     \* snapshot kept for the SQL preview
  originalIndexes,
  originalForeignKeys,
  originalOptions,
  loading,             \* useState loading
  error,               \* useState error (TRUE = an error message is shown)
  isDirty,             \* useState isDirty
  pc,                  \* "idle" | "saving": a handleSave awaits its response
  saveArgs,            \* arguments of the db:save-table-structure calls in
                       \* flight, oldest first
  inflight,            \* responses of fetchStructure calls not yet delivered
  db,                  \* the table as it exists in the database
  lastSave,            \* what the save that just completed did (forgotten
                       \* at the next edit)
  nEdits,              \* number of edits made in this session (bounded)
  nSaves,              \* number of saves started in this session (bounded)
  tabOpen,             \* the design tab is in the tabs of App
  closeLog,            \* what isDirty was when the tab was closed, and
                       \* whether the user had confirmed
  mutated,             \* a mutation handler ran since the table was
                       \* opened or a save succeeded
  budget,              \* how far this behaviour is explored: the number
                       \* of edits, and of calls that may be in flight
  fnIn,                \* input of the pure function under check
  fnOut,               \* its result
  app,                 \* App: useState tabs and activeTabId
  sidebar,             \* Sidebar: its sets of connections and databases,
                       \* the connection store, and the connections the
                       \* main process holds
  viewer               \* DataViewer: its state, its calls in flight, and
                       \* the rows of the table it shows

vars == <<table, tableName, isNewTable, columns, indexes, foreignKeys,
          tableOptions, originalColumns, originalIndexes, originalForeignKeys,
          originalOptions, loading, error, isDirty, pc, saveArgs, inflight,
          db, lastSave, nEdits, nSaves, tabOpen, closeLog, mutated,
          budget, fnIn, fnOut, app, sidebar, viewer>>

----------------------------------------------------------------------------
(* Bounds of the model *)

MaxEdits == 3
MaxSaves == 2
MaxCols == 3
MaxIdx == 3
MaxFks == 2
MaxInflight == 1
MaxSaving == 2
\* behaviours in which a save may start while a reload is still in flight,
\* or in which the fetch of the foreign keys may fail, are explored with
\* fewer edits
MaxOverlapEdits == 1
MaxOverlapInflight == 2

----------------------------------------------------------------------------
(* Generic helpers on sequences *)

Range(s) == {s[i] : i \in 1..Len(s)}

RemoveAt(s, i) == [j \in 1..(Len(s) - 1) |-> IF j < i THEN s[j] ELSE s[j + 1]]

ReplaceAt(s, i, x) == [j \in 1..Len(s) |-> IF j = i THEN x ELSE s[j]]

RECURSIVE Flatten(_)
Flatten(ss) == IF ss = <<>> THEN <<>> ELSE Head(ss) \o Flatten(Tail(ss))

NoDuplicates(s) == \A i, j \in 1..Len(s) : s[i] = s[j] => i = j

----------------------------------------------------------------------------
(* Values *)

\* JavaScript null / undefined of a string-valued field
NullValue == "<null>"

Truthy(v) == v # NullValue /\ v # ""

\* A type string is the sequence of its lexemes: maximal runs of word
\* characters, and the single characters "(", ")", "," and " "
TypeInt == <<"int", "(", "11", ")">>
TypeVarchar == <<"varchar", "(", "255", ")">>

\* col.Type.toLowerCase().includes(word)
TypeIncludes(ty, word) == word \in Range(ty)

\* names a user may type into the Name cell of a column
FieldInputs == {"b", "a2"}

\* names a user may type into the Name input of an index; "7" is a
\* canonical array-index string, which JavaScript objects enumerate first
KeyNameInputs == {"PRIMARY", "idx_b", "7"}

IsArrayIndexKey(k) == k \in {"7"}

ArrayIndexValue(k) == IF k = "7" THEN 7 ELSE 0

\* names a user may type into the Table Name input
TableNameInputs == {"t2", ""}

FK_ACTIONS == {"RESTRICT", "CASCADE", "SET NULL", "NO ACTION", "SET DEFAULT"}

\* the rules a user picks in the model
FkRuleInputs == {"CASCADE"}

\* the other tables of the database (foreign-key targets)
availableTables == <<"other">>

----------------------------------------------------------------------------
(* Renderers of saveTableStructure *)

Clause(op, name, old, cols, def) ==
  [op |-> op, name |-> name, old |-> old, cols |-> cols, def |-> def]

\* an identifier between backquotes
BackQuote == "<bq>"

Quoted(name) == <<BackQuote, name, BackQuote>>

buildColumnDef(col) ==
  Quoted(col.Field) \o col.Type
  \o (IF col.Unsigned /\ ~TypeIncludes(col.Type, "unsigned")
      THEN <<"UNSIGNED">> ELSE <<>>)
  \o (IF col.Zerofill /\ ~TypeIncludes(col.Type, "zerofill")
      THEN <<"ZEROFILL">> ELSE <<>>)
  \o (IF Truthy(col.Charset) /\ col.Charset # "Default"
      THEN <<"CHARACTER SET", col.Charset>> ELSE <<>>)
  \o (IF Truthy(col.Collation) /\ col.Collation # "Default"
      THEN <<"COLLATE", col.Collation>> ELSE <<>>)
  \o (IF col.Null = "NO" THEN <<"NOT NULL">> ELSE <<"NULL">>)
  \o (IF col.Default # NullValue /\ col.Default # ""
      THEN (IF col.Default = "CURRENT_TIMESTAMP"
            THEN <<"DEFAULT", "CURRENT_TIMESTAMP">>
            ELSE IF col.Default = "NULL"
            THEN <<"DEFAULT", "NULL">>
            ELSE <<"DEFAULT", "'", col.Default, "'">>)
      ELSE IF col.Null = "YES"
              /\ (col.Default = NullValue \/ col.Default = "NULL")
      THEN <<"DEFAULT", "NULL">>
      ELSE <<>>)
  \o (IF Truthy(col.Extra) THEN <<col.Extra>> ELSE <<>>)
  \o (IF Truthy(col.Comment) THEN <<"COMMENT", "'", col.Comment, "'">>
      ELSE <<>>)

\* the key names of idxs in the order of their first occurrence
RECURSIVE FirstOccurrences(_, _)
FirstOccurrences(idxs, seen) ==
  IF idxs = <<>> THEN <<>>
  ELSE IF Head(idxs).Key_name \in seen
       THEN FirstOccurrences(Tail(idxs), seen)
       ELSE <<Head(idxs).Key_name>>
            \o FirstOccurrences(Tail(idxs), seen \cup {Head(idxs).Key_name})

\* ascending order of a set of array-index keys
RECURSIVE SortedArrayIndexKeys(_)
SortedArrayIndexKeys(ks) ==
  IF ks = {} THEN <<>>
  ELSE LET least == CHOOSE k \in ks :
                      \A o \in ks : ArrayIndexValue(k) <= ArrayIndexValue(o)
       IN  <<least>> \o SortedArrayIndexKeys(ks \ {least})

NotArrayIndexKey(k) == ~IsArrayIndexKey(k)

\* GroupKeyOrder moving PRIMARY to the front
GroupKeyOrder_PrimaryFirst(keys) ==
  SelectSeq(keys, LAMBDA k : k = "PRIMARY")
  \o SortedArrayIndexKeys({k \in Range(keys) : IsArrayIndexKey(k)})
  \o SelectSeq(keys, LAMBDA k : ~IsArrayIndexKey(k) /\ k # "PRIMARY")

\* Object.keys / Object.entries order of the groups object: array-index
\* keys ascending, then the other keys in insertion order
GroupKeyOrder(keys) ==
  SortedArrayIndexKeys({k \in Range(keys) : IsArrayIndexKey(k)})
  \o SelectSeq(keys, NotArrayIndexKey)

\* groupIndexes: the groups as a sequence of [key, parts] in the order in
\* which Object.entries enumerates them
groupIndexes(idxs) ==
  LET keys == GroupKeyOrder(FirstOccurrences(idxs, {}))
  IN  [g \in 1..Len(keys) |->
         [key |-> keys[g],
          parts |-> SelectSeq(idxs, LAMBDA x : x.Key_name = keys[g])]]

\* Array.prototype.sort by Seq_in_index (stable insertion)
RECURSIVE SortBySeq(_)
InsertBySeq(sorted, p) ==
  LET after == {i \in 1..Len(sorted) :
                  sorted[i].Seq_in_index > p.Seq_in_index}
      at == IF after = {} THEN Len(sorted) + 1
            ELSE CHOOSE i \in after : \A j \in after : i <= j
  IN  SubSeq(sorted, 1, at - 1) \o <<p>> \o SubSeq(sorted, at, Len(sorted))

SortBySeq(parts) ==
  IF parts = <<>> THEN <<>>
  ELSE InsertBySeq(SortBySeq(SubSeq(parts, 1, Len(parts) - 1)),
                   parts[Len(parts)])

IndexColumns(parts) ==
  LET sorted == SortBySeq(parts)
  IN  [i \in 1..Len(sorted) |-> sorted[i].Column_name]

buildIndexDef(keyName, idxParts) ==
  LET sorted == SortBySeq(idxParts)
      cols == Flatten([i \in 1..Len(sorted) |-> Quoted(sorted[i].Column_name)])
      first == sorted[1]
  IN  IF keyName = "PRIMARY"
      THEN <<"PRIMARY KEY", "(">> \o cols \o <<")">>
      ELSE IF first.IndexKind = "UNIQUE"
      THEN <<"UNIQUE KEY">> \o Quoted(keyName) \o <<"(">> \o cols \o <<")">>
      ELSE IF first.IndexKind = "FULLTEXT"
      THEN <<"FULLTEXT KEY">> \o Quoted(keyName) \o <<"(">> \o cols \o <<")">>
      ELSE <<"KEY">> \o Quoted(keyName) \o <<"(">> \o cols
           \o <<")", "USING", first.Index_type>>

\* buildFkDef of generateSqlPreview: the only renderer of a foreign key
buildFkDef(fk) ==
  <<"CONSTRAINT">> \o Quoted(fk.CONSTRAINT_NAME)
  \o <<"FOREIGN KEY", "(">> \o Quoted(fk.COLUMN_NAME) \o <<")", "REFERENCES">>
  \o Quoted(fk.REFERENCED_TABLE_NAME)
  \o <<"(">> \o Quoted(fk.REFERENCED_COLUMN_NAME) \o <<")">>
  \o <<"ON UPDATE",
       IF Truthy(fk.UPDATE_RULE) THEN fk.UPDATE_RULE ELSE "RESTRICT",
       "ON DELETE",
       IF Truthy(fk.DELETE_RULE) THEN fk.DELETE_RULE ELSE "RESTRICT">>

----------------------------------------------------------------------------
(* Statement synthesis of saveTableStructure *)

\* const originalName = col.originalField || col.Field
originalNameOf(col) ==
  IF Truthy(col.originalField) THEN col.originalField ELSE col.Field

HasField(cols, name) == \E i \in 1..Len(cols) : cols[i].Field = name

\* columnClause looking the column up by its current name
columnClause_MatchByField(col, currentCols) ==
  IF col.isNew
  THEN Clause("ADD COLUMN", col.Field, "", <<>>, buildColumnDef(col))
  ELSE IF HasField(currentCols, col.Field)
       THEN Clause("MODIFY COLUMN", col.Field, "", <<>>, buildColumnDef(col))
       ELSE Clause("ADD COLUMN", col.Field, "", <<>>, buildColumnDef(col))

\* the clause the column loop pushes for one column of the edited list
columnClause(col, currentCols) ==
  IF col.isNew
  THEN Clause("ADD COLUMN", col.Field, "", <<>>, buildColumnDef(col))
  ELSE IF HasField(currentCols, originalNameOf(col))
       THEN IF col.Field # originalNameOf(col)
            THEN Clause("CHANGE COLUMN", col.Field, originalNameOf(col), <<>>,
                        Quoted(originalNameOf(col)) \o buildColumnDef(col))
            ELSE Clause("MODIFY COLUMN", col.Field, "", <<>>,
                        buildColumnDef(col))
       ELSE Clause("ADD COLUMN", col.Field, "", <<>>, buildColumnDef(col))

columnClauses(cols, currentCols) ==
  [i \in 1..Len(cols) |-> columnClause(cols[i], currentCols)]

\* processedCurrentCols also counting a column matched by Field alone
processedCurrentCols_AnyField(cols, currentCols) ==
  {cols[i].originalField : i \in 1..Len(cols)}
  \cup {cols[i].Field : i \in 1..Len(cols)}

\* processedCurrentCols also counting the new columns, by their Field
processedCurrentCols_NewToo(cols, currentCols) ==
  {originalNameOf(cols[i]) : i \in
     {j \in 1..Len(cols) : HasField(currentCols, originalNameOf(cols[j]))}}

\* the set processedCurrentCols after the column loop
processedCurrentCols(cols, currentCols) ==
  {originalNameOf(cols[i]) : i \in
     {j \in 1..Len(cols) : ~cols[j].isNew
                           /\ HasField(currentCols, originalNameOf(cols[j]))}}

\* the loop "Drop removed columns"
RECURSIVE dropColumnClauses(_, _)
dropColumnClauses(currentCols, processed) ==
  IF currentCols = <<>> THEN <<>>
  ELSE (IF Head(currentCols).Field \notin processed
        THEN <<Clause("DROP COLUMN", Head(currentCols).Field, "", <<>>,
                      Quoted(Head(currentCols).Field))>>
        ELSE <<>>)
       \o dropColumnClauses(Tail(currentCols), processed)

dropIndexClause(key) ==
  IF key = "PRIMARY"
  THEN Clause("DROP PRIMARY KEY", key, "", <<>>, <<>>)
  ELSE Clause("DROP INDEX", key, "", <<>>, Quoted(key))

\* dropIndexClauses dropping only the indexes absent from the edited list
dropIndexClauses_OnlyRemoved(oldGroups, newGroups) ==
  Flatten([g \in 1..Len(oldGroups) |->
     IF ~(\E n \in 1..Len(newGroups) : newGroups[n].key = oldGroups[g].key)
     THEN <<dropIndexClause(oldGroups[g].key)>>
     ELSE <<>>])

\* the loop over Object.keys(oldGroups): both branches push the same drop
dropIndexClauses(oldGroups, newGroups) ==
  [g \in 1..Len(oldGroups) |->
     IF ~(\E n \in 1..Len(newGroups) : newGroups[n].key = oldGroups[g].key)
     THEN dropIndexClause(oldGroups[g].key)
     ELSE dropIndexClause(oldGroups[g].key)]

\* the loop over Object.entries(newGroups)
addIndexClauses(newGroups) ==
  [g \in 1..Len(newGroups) |->
     Clause("ADD INDEX", newGroups[g].key, "",
            IndexColumns(newGroups[g].parts),
            buildIndexDef(newGroups[g].key, newGroups[g].parts))]

\* optionSql of the ALTER branch
optionSql(options) ==
  (IF Truthy(options.Engine) THEN <<"ENGINE=", options.Engine>> ELSE <<>>)
  \o (IF Truthy(options.Charset)
      THEN <<"DEFAULT CHARSET=", options.Charset>> ELSE <<>>)
  \o (IF Truthy(options.Collation)
      THEN <<"COLLATE=", options.Collation>> ELSE <<>>)
  \o (IF Truthy(options.Comment)
      THEN <<"COMMENT=", "'", options.Comment, "'">> ELSE <<>>)
  \o (IF Truthy(options.Auto_increment)
      THEN <<"AUTO_INCREMENT=", options.Auto_increment>> ELSE <<>>)
  \o (IF Truthy(options.Row_format)
      THEN <<"ROW_FORMAT=", options.Row_format>> ELSE <<>>)

optionClauses(options) ==
  IF Len(optionSql(options)) > 0
  THEN <<Clause("OPTIONS", "", "", <<>>, optionSql(options))>>
  ELSE <<>>

\* the array alters of the ALTER branch
alterClauses(cols, idxs, options, currentCols, currentIndexes) ==
  columnClauses(cols, currentCols)
  \o dropColumnClauses(currentCols, processedCurrentCols(cols, currentCols))
  \o dropIndexClauses(groupIndexes(currentIndexes), groupIndexes(idxs))
  \o addIndexClauses(groupIndexes(idxs))
  \o optionClauses(options)

\* the array lines of the CREATE branch
createLines(cols, idxs) ==
  [i \in 1..Len(cols) |->
     Clause("COLUMN", cols[i].Field, "", <<>>, buildColumnDef(cols[i]))]
  \o [g \in 1..Len(groupIndexes(idxs)) |->
        Clause("INDEX", groupIndexes(idxs)[g].key, "",
               IndexColumns(groupIndexes(idxs)[g].parts),
               buildIndexDef(groupIndexes(idxs)[g].key,
                             groupIndexes(idxs)[g].parts))]

\* the text after the closing parenthesis of CREATE TABLE
createOptions(options) ==
  <<"ENGINE=", IF Truthy(options.Engine) THEN options.Engine ELSE "InnoDB",
    "DEFAULT CHARSET=",
    IF Truthy(options.Charset) THEN options.Charset ELSE "utf8mb4",
    "COLLATE=",
    IF Truthy(options.Collation) THEN options.Collation
    ELSE "utf8mb4_general_ci">>
  \o (IF Truthy(options.Comment)
      THEN <<"COMMENT=", "'", options.Comment, "'">> ELSE <<>>)
  \o (IF Truthy(options.Auto_increment)
      THEN <<"AUTO_INCREMENT=", options.Auto_increment>> ELSE <<>>)

Statement(kind, target, old, clauses, tail) ==
  [kind |-> kind, target |-> target, old |-> old, clauses |-> clauses,
   tail |-> tail]

----------------------------------------------------------------------------
(* The database: one table, as SHOW FULL COLUMNS / SHOW INDEX /            *)
(* SHOW TABLE STATUS and the foreign-key query report it                   *)

DbColumn(field, type, null, key, default, extra, collation) ==
  [Field |-> field, Type |-> type, Null |-> null, Key |-> key,
   Default |-> default, Extra |-> extra, Comment |-> "",
   Collation |-> collation]

DbIndex(keyName, column, nonUnique, indexType, seq) ==
  [Key_name |-> keyName, Column_name |-> column, Non_unique |-> nonUnique,
   Index_type |-> indexType, Seq_in_index |-> seq]

DbStatus(engine, collation, comment) ==
  [Engine |-> engine, Collation |-> collation, Comment |-> comment,
   Auto_increment |-> NullValue, Row_format |-> "Dynamic"]

NoTable ==
  [exists |-> FALSE, name |-> "", columns |-> <<>>, indexes |-> <<>>,
   foreignKeys |-> <<>>, status |-> DbStatus("", "", "")]

\* the table t that exists when the designer is opened on it
ExistingTable ==
  [exists |-> TRUE, name |-> "t",
   columns |-> <<DbColumn("a", TypeInt, "NO", "PRI", NullValue,
                          "auto_increment", NullValue),
                 DbColumn("b", TypeVarchar, "YES", "", NullValue, "",
                          "utf8mb4_general_ci")>>,
   indexes |-> <<DbIndex("PRIMARY", "a", 0, "BTREE", 1)>>,
   foreignKeys |-> <<[CONSTRAINT_NAME |-> "fk_b", COLUMN_NAME |-> "b",
                      REFERENCED_TABLE_NAME |-> "other",
                      REFERENCED_COLUMN_NAME |-> "id",
                      UPDATE_RULE |-> "RESTRICT",
                      DELETE_RULE |-> "RESTRICT"]>>,
   status |-> DbStatus("InnoDB", "utf8mb4_general_ci", "")]

TableExists(d, name) == d.exists /\ d.name = name

FieldsOf(cols) == [i \in 1..Len(cols) |-> cols[i].Field]

\* the Extra values that contain the word auto_increment; the second is
\* what handleUpdateColumn writes
AutoIncrementExtras == {"auto_increment", " auto_increment"}

\* the row the database stores for an edited column
DbRowOf(col) ==
  DbColumn(col.Field, col.Type, col.Null, col.Key,
           IF Truthy(col.Default) /\ col.Default # "NULL"
           THEN col.Default ELSE NullValue,
           IF col.Extra \in AutoIncrementExtras THEN "auto_increment"
           ELSE col.Extra,
           IF Truthy(col.Collation) THEN col.Collation ELSE NullValue)

ColumnNamed(cols, name) ==
  cols[CHOOSE i \in 1..Len(cols) :
         cols[i].Field = name /\ \A j \in 1..(i - 1) : cols[j].Field # name]

OfOps(clauses, ops) == SelectSeq(clauses, LAMBDA c : c.op \in ops)

NamesOf(clauses) == [i \in 1..Len(clauses) |-> clauses[i].name]

\* the column a CHANGE / MODIFY clause rewrites
TargetOf(c) == IF c.op = "CHANGE COLUMN" THEN c.old ELSE c.name

RECURSIVE AlteredColumns(_, _, _)
AlteredColumns(dbCols, clauses, cols) ==
  IF dbCols = <<>> THEN <<>>
  ELSE LET f == Head(dbCols).Field
           rewrites == OfOps(clauses, {"CHANGE COLUMN", "MODIFY COLUMN"})
           hits == SelectSeq(rewrites, LAMBDA c : TargetOf(c) = f)
       IN  (IF \E i \in 1..Len(clauses) :
                  clauses[i].op = "DROP COLUMN" /\ clauses[i].name = f
            THEN <<>>
            ELSE IF hits # <<>>
            THEN <<DbRowOf(ColumnNamed(cols, hits[1].name))>>
            ELSE <<Head(dbCols)>>)
           \o AlteredColumns(Tail(dbCols), clauses, cols)

\* the columns of the table after the ALTER / CREATE was executed
ColumnsAfter(d, clauses, cols) ==
  LET adds == OfOps(clauses, {"ADD COLUMN", "COLUMN"})
  IN  AlteredColumns(d.columns, clauses, cols)
      \o [i \in 1..Len(adds) |-> DbRowOf(ColumnNamed(cols, adds[i].name))]

IndexRowsOf(c) ==
  [i \in 1..Len(c.cols) |->
     DbIndex(c.name, c.cols[i],
             IF c.def[1] \in {"PRIMARY KEY", "UNIQUE KEY"} THEN 0 ELSE 1,
             IF c.def[1] = "FULLTEXT KEY" THEN "FULLTEXT" ELSE "BTREE", i)]

\* the index rows of the table after the ALTER / CREATE was executed
IndexesAfter(d, clauses) ==
  LET dropped == Range(NamesOf(OfOps(clauses,
                                     {"DROP INDEX", "DROP PRIMARY KEY"})))
      adds == OfOps(clauses, {"ADD INDEX", "INDEX"})
  IN  SelectSeq(d.indexes, LAMBDA r : r.Key_name \notin dropped)
      \o Flatten([i \in 1..Len(adds) |-> IndexRowsOf(adds[i])])

\* what MySQL certainly rejects: unknown or doubly altered columns,
\* duplicate or empty column names, a table without columns, unknown
\* indexes, duplicate index names, an index on a missing column, more than
\* one auto column, an auto column that no index names
StatementValid(d, clauses, cols) ==
  LET touched == [i \in 1..Len(OfOps(clauses, {"CHANGE COLUMN",
                                               "MODIFY COLUMN"})) |->
                    TargetOf(OfOps(clauses, {"CHANGE COLUMN",
                                             "MODIFY COLUMN"})[i])]
                 \o NamesOf(OfOps(clauses, {"DROP COLUMN"}))
      after == FieldsOf(ColumnsAfter(d, clauses, cols))
      idxDrops == NamesOf(OfOps(clauses, {"DROP INDEX", "DROP PRIMARY KEY"}))
      idxAfter == IndexesAfter(d, clauses)
      idxAdds == NamesOf(OfOps(clauses, {"ADD INDEX", "INDEX"}))
  IN  /\ NoDuplicates(touched)
      /\ Range(touched) \subseteq Range(FieldsOf(d.columns))
      /\ Len(after) > 0
      /\ NoDuplicates(after)
      /\ "" \notin Range(after)
      /\ NoDuplicates(idxDrops)
      /\ Range(idxDrops) \subseteq {r.Key_name : r \in Range(d.indexes)}
      /\ NoDuplicates(idxAdds)
      /\ Range(idxAdds) \cap
           {r.Key_name : r \in Range(SelectSeq(d.indexes,
               LAMBDA r : r.Key_name \notin Range(idxDrops)))} = {}
      /\ "" \notin Range(idxAdds)
      /\ \A r \in Range(idxAfter) : r.Column_name \in Range(after)
      /\ LET rows == ColumnsAfter(d, clauses, cols)
             auto == {i \in 1..Len(rows) : rows[i].Extra = "auto_increment"}
         IN  /\ Cardinality(auto) <= 1
             /\ \A i \in auto :
                  \E r \in Range(idxAfter) : r.Column_name = rows[i].Field

----------------------------------------------------------------------------
(* The snapshot loader as fetchStructure consumes it *)

\* the lexemes that are not made of word characters (\w)
NonWordLexemes == {"(", ")", ",", " "}

IsWord(x) == x \notin NonWordLexemes

\* a capture group that did not take part in the match (undefined)
UndefinedText == <<NullValue>>

\* the empty string
EmptyText == <<>>

\* the number of leading word lexemes: what the greedy \w+ takes
WordPrefix(s) ==
  IF \A i \in 1..Len(s) : IsWord(s[i]) THEN Len(s)
  ELSE (CHOOSE i \in 1..Len(s) :
          ~IsWord(s[i]) /\ \A j \in 1..(i - 1) : IsWord(s[j])) - 1

\* what may follow the optional length group: nothing, or a space and
\* at least one more character
ExtraMatches(rest) == rest = <<>> \/ (Len(rest) >= 2 /\ rest[1] = " ")

\* the length group is lazy: it ends at the first ")" that lets the rest
\* of the pattern match
GroupClose_Lazy(closers) == CHOOSE p \in closers : \A q \in closers : p <= q

\* the length group (.+) is greedy: it ends at the last ")" that lets the
\* rest of the pattern match
GroupClose(closers) == CHOOSE p \in closers : \A q \in closers : q <= p

\* parseType: fullType.match(/^(\w+)(?:\((.+)\))?(?: (.+))?$/)
parseType(fullType) ==
  LET n == Len(fullType)
      w == WordPrefix(fullType)
      rest == SubSeq(fullType, w + 1, n)
      \* positions of a ")" that can close the greedy length group
      closers == {p \in (w + 3)..n :
                    /\ fullType[p] = ")"
                    /\ ExtraMatches(SubSeq(fullType, p + 1, n))}
      close == GroupClose(closers)
      grouped == w >= 1 /\ rest # <<>> /\ rest[1] = "(" /\ closers # {}
      plain == w >= 1 /\ ~grouped /\ ExtraMatches(rest)
      extra == IF grouped
               THEN (IF close = n THEN EmptyText
                     ELSE SubSeq(fullType, close + 2, n))
               ELSE IF plain /\ rest # <<>> THEN Tail(rest)
               ELSE EmptyText
  IN  [type |-> IF grouped \/ plain THEN SubSeq(fullType, 1, w)
                ELSE fullType,
       length |-> IF grouped THEN SubSeq(fullType, w + 2, close - 1)
                  ELSE IF plain THEN UndefinedText
                  ELSE EmptyText,
       unsigned |-> "unsigned" \in Range(extra),
       zerofill |-> "zerofill" \in Range(extra)]

\* the Type string handleUpdateColumn reconstructs from the four parts;
\* if (l) is false for the empty string and for undefined
composeType(t, l, u, z) ==
  t
  \o (IF l # EmptyText /\ l # UndefinedText
      THEN <<"(">> \o l \o <<")">> ELSE <<>>)
  \o (IF u THEN <<" ", "unsigned">> ELSE <<>>)
  \o (IF z THEN <<" ", "zerofill">> ELSE <<>>)

\* collation.split('_')[0]
CharsetOf(collation) ==
  IF collation = "utf8mb4_general_ci" THEN "utf8mb4"
  ELSE IF collation = NullValue THEN NullValue
  ELSE collation

processedColumn(col) ==
  [Field |-> col.Field, Type |-> col.Type, Null |-> col.Null,
   Key |-> col.Key, Default |-> col.Default, Extra |-> col.Extra,
   Comment |-> col.Comment,
   isNew |-> FALSE,
   originalField |-> col.Field,
   ParsedType |-> parseType(col.Type).type,
   Length |-> parseType(col.Type).length,
   isVirtual |-> FALSE,
   Unsigned |-> parseType(col.Type).unsigned,
   Zerofill |-> parseType(col.Type).zerofill,
   AutoIncrement |-> (col.Extra = "auto_increment"),
   Charset |-> CharsetOf(col.Collation),
   Collation |-> col.Collation]

processedIndex(idx) ==
  [Key_name |-> idx.Key_name, Column_name |-> idx.Column_name,
   Non_unique |-> idx.Non_unique, Index_type |-> idx.Index_type,
   Seq_in_index |-> idx.Seq_in_index,
   IndexKind |-> IF idx.Key_name = "PRIMARY" THEN "PRIMARY"
                 ELSE IF idx.Non_unique = 0 THEN "UNIQUE" ELSE "NORMAL",
   Comment |-> ""]

processedFk(fk) ==
  [CONSTRAINT_NAME |-> fk.CONSTRAINT_NAME, COLUMN_NAME |-> fk.COLUMN_NAME,
   REFERENCED_TABLE_NAME |-> fk.REFERENCED_TABLE_NAME,
   REFERENCED_COLUMN_NAME |-> fk.REFERENCED_COLUMN_NAME,
   UPDATE_RULE |-> fk.UPDATE_RULE, DELETE_RULE |-> fk.DELETE_RULE,
   isNew |-> FALSE, isDeleted |-> FALSE,
   originalName |-> fk.CONSTRAINT_NAME]

processedOptions(st) ==
  [Engine |-> st.Engine, Charset |-> CharsetOf(st.Collation),
   Collation |-> st.Collation, Comment |-> st.Comment,
   Auto_increment |-> st.Auto_increment, Row_format |-> st.Row_format]

EmptyOptions ==
  [Engine |-> NullValue, Charset |-> NullValue, Collation |-> NullValue,
   Comment |-> NullValue, Auto_increment |-> NullValue,
   Row_format |-> NullValue]

\* the two responses fetchStructure awaits, as the main process produces
\* them for the table named target
FetchResponse(d, target) ==
  IF TableExists(d, target)
  THEN [success |-> TRUE,
        columns |-> [i \in 1..Len(d.columns) |-> processedColumn(d.columns[i])],
        indexes |-> [i \in 1..Len(d.indexes) |-> processedIndex(d.indexes[i])],
        foreignKeys |-> [i \in 1..Len(d.foreignKeys) |->
                           processedFk(d.foreignKeys[i])],
        options |-> processedOptions(d.status)]
  ELSE [success |-> FALSE, columns |-> <<>>, indexes |-> <<>>,
        foreignKeys |-> <<>>, options |-> EmptyOptions]

----------------------------------------------------------------------------
(* Initial state: the designer was just mounted *)

defaultColumns ==
  <<[Field |-> "id", Type |-> TypeInt, ParsedType |-> <<"int">>,
     Length |-> <<"11">>,
     Null |-> "NO", Key |-> "PRI", Default |-> NullValue,
     Extra |-> "auto_increment", Comment |-> "", isNew |-> TRUE,
     originalField |-> "", isVirtual |-> FALSE, Unsigned |-> FALSE,
     Zerofill |-> FALSE, AutoIncrement |-> TRUE,
     Charset |-> NullValue, Collation |-> NullValue]>>

defaultIndexes ==
  <<[Key_name |-> "PRIMARY", Column_name |-> "id", Non_unique |-> 0,
     Index_type |-> "BTREE", Seq_in_index |-> 1, IndexKind |-> "PRIMARY",
     Comment |-> ""]>>

defaultOptions ==
  [Engine |-> "InnoDB", Charset |-> "utf8mb4",
   Collation |-> "utf8mb4_general_ci", Comment |-> NullValue,
   Auto_increment |-> NullValue, Row_format |-> NullValue]

\* the arguments of db:save-table-structure; the four original* fields are
\* not sent, they record the editor's original snapshot at the call
NoArgs ==
  [oldTableName |-> "", newTableName |-> "", columns |-> <<>>,
   indexes |-> <<>>, foreignKeys |-> <<>>, options |-> EmptyOptions,
   isNew |-> FALSE, originalColumns |-> <<>>, originalIndexes |-> <<>>,
   originalForeignKeys |-> <<>>, originalOptions |-> EmptyOptions]

\* the tab was not closed
NotClosed == [dirty |-> FALSE, confirmed |-> FALSE]

\* the two ways a behaviour is bounded
Budgets ==
  {[edits |-> MaxEdits, inflight |-> MaxInflight, fksFail |-> FALSE],
   [edits |-> MaxOverlapEdits, inflight |-> MaxOverlapInflight,
    fksFail |-> TRUE]}

\* no pure function is under check
NoFn == <<>>

\* no DataViewer is mounted
NoViewer == <<>>

NoSave ==
  [kind |-> "none", result |-> "none", sent |-> <<>>, args |-> NoArgs,
   seenColumns |-> <<>>, seenIndexes |-> <<>>]

InitCommon ==
  /\ error = FALSE
  /\ isDirty = FALSE
  /\ pc = "idle"
  /\ saveArgs = <<>>
  /\ lastSave = NoSave
  /\ nEdits = 0
  /\ nSaves = 0
  /\ tabOpen = TRUE
  /\ closeLog = NotClosed
  /\ mutated = FALSE
  /\ originalColumns = <<>>
  /\ originalIndexes = <<>>
  /\ originalForeignKeys = <<>>
  /\ originalOptions = EmptyOptions

\* opened on the existing table t: fetchStructure is in flight
InitExisting ==
  /\ table = "t"
  /\ tableName = "t"
  /\ isNewTable = FALSE
  /\ columns = <<>>
  /\ indexes = <<>>
  /\ foreignKeys = <<>>
  /\ tableOptions = EmptyOptions
  /\ loading = TRUE
  /\ db = ExistingTable
  /\ inflight = <<FetchResponse(ExistingTable, "t")>>
  /\ InitCommon

\* opened without a table: New Table Mode
InitNew ==
  /\ table = ""
  /\ tableName = "new_table"
  /\ isNewTable = TRUE
  /\ columns = defaultColumns
  /\ indexes = defaultIndexes
  /\ foreignKeys = <<>>
  /\ tableOptions = defaultOptions
  /\ loading = FALSE
  /\ db = NoTable
  /\ inflight = <<>>
  /\ InitCommon

\* App: const [tabs, setTabs] = useState<Tab[]>([]) and
\* const [activeTabId, setActiveTabId] = useState<string | null>(null)
InitApp == app = [tabs |-> <<>>, activeTabId |-> NullValue]

\* Sidebar: three empty sets; the store starts without an active
\* connection; the main process holds no connection
InitSidebar ==
  sidebar = [expandedConnections |-> {}, expandedDatabases |-> {},
             openDatabases |-> {}, activeConnectionId |-> NullValue,
             activeConnectionConfigId |-> NullValue, connections |-> {},
             uuids |-> 0, truncating |-> <<>>, closed |-> <<>>]

Init ==
  /\ InitExisting \/ InitNew
  /\ budget \in Budgets
  /\ fnIn = NoFn
  /\ fnOut = NoFn
  /\ InitApp
  /\ InitSidebar
  /\ viewer = NoViewer

----------------------------------------------------------------------------
(* Edits of the Table Structure Editor *)

\* the designer is mounted while its tab exists, and renders its grid only
\* when neither loading nor error is set
Interactive == tabOpen /\ ~loading /\ ~error

\* what no step of the designer touches
Frame == UNCHANGED <<budget, fnIn, fnOut, app, sidebar, viewer>>

CanEdit == Interactive /\ nEdits < budget.edits

\* a mutation handler that leaves isDirty as it is
isDirtyAfterEdit_Kept(dirty) == dirty

\* every mutation handler ends with setIsDirty(true)
isDirtyAfterEdit(dirty) == TRUE

Edited ==
  /\ isDirty' = isDirtyAfterEdit(isDirty)
  /\ nEdits' = nEdits + 1
  /\ lastSave' = NoSave
  /\ mutated' = TRUE
  /\ UNCHANGED <<table, isNewTable, originalColumns, originalIndexes,
                 originalForeignKeys, originalOptions, loading, error, pc,
                 saveArgs, inflight, db, nSaves, tabOpen, closeLog>>
  /\ Frame

\* the renamed column is tracked under its new name
newCol_Field_Retracked(col, value) ==
  [col EXCEPT !.Field = value, !.originalField = value]

\* newCol = { ...col, [field]: value } for field = 'Field'
newCol_Field(col, value) == [col EXCEPT !.Field = value]

\* handleUpdateColumn(index, 'Field', value)
handleUpdateColumn_Field(index, value) ==
  /\ CanEdit
  /\ index \in 1..Len(columns)
  /\ columns' = ReplaceAt(columns, index, newCol_Field(columns[index], value))
  /\ UNCHANGED <<tableName, indexes, foreignKeys, tableOptions>>
  /\ Edited

\* handleUpdateColumn(index, 'Null', value)
handleUpdateColumn_Null(index, value) ==
  /\ CanEdit
  /\ index \in 1..Len(columns)
  /\ columns' = ReplaceAt(columns, index, [columns[index] EXCEPT !.Null = value])
  /\ UNCHANGED <<tableName, indexes, foreignKeys, tableOptions>>
  /\ Edited

\* handleUpdateColumn(index, 'Length', value): the Type string is
\* reconstructed from ParsedType, the new Length, Unsigned and Zerofill
handleUpdateColumn_Length(index, value) ==
  /\ CanEdit
  /\ index \in 1..Len(columns)
  /\ columns' = ReplaceAt(columns, index,
         [columns[index] EXCEPT
            !.Length = value,
            !.Type = composeType(columns[index].ParsedType, value,
                                 columns[index].Unsigned,
                                 columns[index].Zerofill)])
  /\ UNCHANGED <<tableName, indexes, foreignKeys, tableOptions>>
  /\ Edited

\* the properties panel shows the Auto Increment checkbox for these types
isNumeric(type) ==
  type \in {<<"int">>, <<"tinyint">>, <<"smallint">>, <<"mediumint">>,
            <<"bigint">>, <<"float">>, <<"double">>, <<"decimal">>}

\* handleUpdateColumn(index, 'AutoIncrement', value): Extra loses every
\* auto_increment, is trimmed, and gets ' auto_increment' appended when
\* value is true
handleUpdateColumn_AutoIncrement(index, value) ==
  /\ CanEdit
  /\ index \in 1..Len(columns)
  /\ isNumeric(columns[index].ParsedType)
  /\ columns' = ReplaceAt(columns, index,
         [columns[index] EXCEPT
            !.AutoIncrement = value,
            !.Extra = IF value THEN " auto_increment"
                      ELSE IF @ \in AutoIncrementExtras THEN "" ELSE @])
  /\ UNCHANGED <<tableName, indexes, foreignKeys, tableOptions>>
  /\ Edited

newColumn ==
  [Field |-> "new_column", Type |-> TypeVarchar,
   ParsedType |-> <<"varchar">>, Length |-> <<"255">>, Null |-> "YES", Key |-> "", Default |-> NullValue,
   Extra |-> "", Comment |-> "", isNew |-> TRUE, originalField |-> "",
   isVirtual |-> FALSE, Unsigned |-> FALSE, Zerofill |-> FALSE,
   AutoIncrement |-> FALSE, Charset |-> NullValue, Collation |-> NullValue]

handleAddColumn ==
  /\ CanEdit
  /\ Len(columns) < MaxCols
  /\ columns' = Append(columns, newColumn)
  /\ UNCHANGED <<tableName, indexes, foreignKeys, tableOptions>>
  /\ Edited

handleDeleteColumn(index) ==
  /\ CanEdit
  /\ index \in 1..Len(columns)
  /\ columns' = RemoveAt(columns, index)
  /\ UNCHANGED <<tableName, indexes, foreignKeys, tableOptions>>
  /\ Edited

newIndex ==
  [Key_name |-> "new_index",
   Column_name |-> IF Len(columns) > 0 /\ Truthy(columns[1].Field)
                   THEN columns[1].Field ELSE "",
   Non_unique |-> 1, Index_type |-> "BTREE", Seq_in_index |-> 1,
   IndexKind |-> "NORMAL", Comment |-> ""]

handleAddIndex ==
  /\ CanEdit
  /\ Len(indexes) < MaxIdx
  /\ indexes' = Append(indexes, newIndex)
  /\ UNCHANGED <<tableName, columns, foreignKeys, tableOptions>>
  /\ Edited

\* handleUpdateIndex(index, 'Key_name', value)
handleUpdateIndex_Key_name(index, value) ==
  /\ CanEdit
  /\ index \in 1..Len(indexes)
  /\ indexes' = ReplaceAt(indexes, index,
                          [indexes[index] EXCEPT !.Key_name = value])
  /\ UNCHANGED <<tableName, columns, foreignKeys, tableOptions>>
  /\ Edited

\* handleUpdateIndex(index, 'Column_name', value): value is one of the
\* options of the Columns select
handleUpdateIndex_Column_name(index, value) ==
  /\ CanEdit
  /\ index \in 1..Len(indexes)
  /\ value \in Range(FieldsOf(columns))
  /\ indexes' = ReplaceAt(indexes, index,
                          [indexes[index] EXCEPT !.Column_name = value])
  /\ UNCHANGED <<tableName, columns, foreignKeys, tableOptions>>
  /\ Edited

\* handleUpdateIndex(index, 'IndexKind', value)
handleUpdateIndex_IndexKind(index, value) ==
  /\ CanEdit
  /\ index \in 1..Len(indexes)
  /\ indexes' = ReplaceAt(indexes, index,
                          [indexes[index] EXCEPT !.IndexKind = value])
  /\ UNCHANGED <<tableName, columns, foreignKeys, tableOptions>>
  /\ Edited

handleDeleteIndex(index) ==
  /\ CanEdit
  /\ index \in 1..Len(indexes)
  /\ indexes' = RemoveAt(indexes, index)
  /\ UNCHANGED <<tableName, columns, foreignKeys, tableOptions>>
  /\ Edited

\* the constraint name fk_<tableName>_<Date.now()>: a name not used yet
newFkName ==
  IF \E i \in 1..Len(foreignKeys) : foreignKeys[i].CONSTRAINT_NAME = "fk_new_1"
  THEN "fk_new_2" ELSE "fk_new_1"

newFk ==
  [CONSTRAINT_NAME |-> newFkName,
   COLUMN_NAME |-> IF Len(columns) > 0 /\ Truthy(columns[1].Field)
                   THEN columns[1].Field ELSE "",
   REFERENCED_TABLE_NAME |-> availableTables[1],
   REFERENCED_COLUMN_NAME |-> "",
   UPDATE_RULE |-> "RESTRICT", DELETE_RULE |-> "RESTRICT",
   isNew |-> TRUE, isDeleted |-> FALSE, originalName |-> NullValue]

handleAddForeignKey ==
  /\ CanEdit
  /\ Len(foreignKeys) < MaxFks
  /\ foreignKeys' = Append(foreignKeys, newFk)
  /\ UNCHANGED <<tableName, columns, indexes, tableOptions>>
  /\ Edited

\* handleUpdateForeignKey(index, field, value) for the fields DELETE_RULE
\* and COLUMN_NAME; the properties panel shows no deleted foreign key
handleUpdateForeignKey_DELETE_RULE(index, value) ==
  /\ CanEdit
  /\ index \in 1..Len(foreignKeys)
  /\ ~foreignKeys[index].isDeleted
  /\ foreignKeys' = ReplaceAt(foreignKeys, index,
                              [foreignKeys[index] EXCEPT !.DELETE_RULE = value])
  /\ UNCHANGED <<tableName, columns, indexes, tableOptions>>
  /\ Edited

handleUpdateForeignKey_COLUMN_NAME(index, value) ==
  /\ CanEdit
  /\ index \in 1..Len(foreignKeys)
  /\ ~foreignKeys[index].isDeleted
  /\ value \in Range(FieldsOf(columns))
  /\ foreignKeys' = ReplaceAt(foreignKeys, index,
                              [foreignKeys[index] EXCEPT !.COLUMN_NAME = value])
  /\ UNCHANGED <<tableName, columns, indexes, tableOptions>>
  /\ Edited

\* the list shows, and lets delete, only foreign keys not marked deleted
handleDeleteForeignKey(index) ==
  /\ CanEdit
  /\ index \in 1..Len(foreignKeys)
  /\ ~foreignKeys[index].isDeleted
  /\ foreignKeys' =
       IF foreignKeys[index].isNew
       THEN RemoveAt(foreignKeys, index)
       ELSE ReplaceAt(foreignKeys, index,
                      [foreignKeys[index] EXCEPT !.isDeleted = TRUE])
  /\ UNCHANGED <<tableName, columns, indexes, tableOptions>>
  /\ Edited

\* handleUpdateOptions('Engine', value)
handleUpdateOptions_Engine(value) ==
  /\ CanEdit
  /\ tableOptions' = [tableOptions EXCEPT !.Engine = value]
  /\ UNCHANGED <<tableName, columns, indexes, foreignKeys>>
  /\ Edited

\* handleUpdateOptions('Charset', value): also resets the collation
handleUpdateOptions_Charset(value) ==
  /\ CanEdit
  /\ tableOptions' = [tableOptions EXCEPT !.Charset = value, !.Collation = ""]
  /\ UNCHANGED <<tableName, columns, indexes, foreignKeys>>
  /\ Edited

\* onChange of the Table Name input
setTableName(value) ==
  /\ CanEdit
  /\ tableName' = value
  /\ UNCHANGED <<columns, indexes, foreignKeys, tableOptions>>
  /\ Edited

----------------------------------------------------------------------------
(* Saving *)

StatusAfter(st, options) ==
  [Engine |-> IF Truthy(options.Engine) THEN options.Engine ELSE st.Engine,
   Collation |-> IF Truthy(options.Collation) THEN options.Collation
                 ELSE st.Collation,
   Comment |-> IF Truthy(options.Comment) THEN options.Comment ELSE st.Comment,
   Auto_increment |-> st.Auto_increment,
   Row_format |-> "Dynamic"]

RenameStatement(old, new) == Statement("RENAME TABLE", new, old, <<>>, <<>>)

\* RENAME TABLE old TO new succeeds when old exists and new is a free name
RenameOk(d, old, new) ==
  TableExists(d, old) /\ new \notin {""} \cup Range(availableTables)

\* the CREATE branch of saveTableStructure run against database d;
\* accept = FALSE stands for any other reason the server has to refuse
saveCreate(args, d, accept) ==
  LET lines == createLines(args.columns, args.indexes)
      stmt == Statement("CREATE TABLE", args.newTableName, "", lines,
                        createOptions(args.options))
      ok == /\ accept
            /\ ~d.exists
            /\ args.newTableName \notin {""} \cup Range(availableTables)
            /\ StatementValid(NoTable, lines, args.columns)
  IN  [kind |-> "create",
       result |-> IF ok THEN "ok" ELSE "error",
       sent |-> <<stmt>>,
       seenColumns |-> <<>>,
       seenIndexes |-> <<>>,
       db |-> IF ok
              THEN [exists |-> TRUE, name |-> args.newTableName,
                    columns |-> ColumnsAfter(NoTable, lines, args.columns),
                    indexes |-> IndexesAfter(NoTable, lines),
                    foreignKeys |-> <<>>,
                    status |-> StatusAfter(
                                 DbStatus("InnoDB", "utf8mb4_general_ci", ""),
                                 args.options)]
              ELSE d]

\* the ALTER branch of saveTableStructure run against database d
saveAlter(args, d, accept) ==
  LET renaming == args.oldTableName # args.newTableName
      renameSent == IF renaming
                    THEN <<RenameStatement(args.oldTableName,
                                           args.newTableName)>>
                    ELSE <<>>
      renamed == renaming /\ RenameOk(d, args.oldTableName, args.newTableName)
      d1 == IF renamed THEN [d EXCEPT !.name = args.newTableName] ELSE d
      oldTableName == args.newTableName
      found == TableExists(d1, oldTableName)
      alters == alterClauses(args.columns, args.indexes, args.options,
                             d1.columns, d1.indexes)
      stmt == Statement("ALTER TABLE", oldTableName, "", alters, <<>>)
      ok == accept /\ StatementValid(d1, alters, args.columns)
  IN  IF renaming /\ ~renamed
      THEN [kind |-> "alter", result |-> "error", sent |-> renameSent,
            seenColumns |-> <<>>, seenIndexes |-> <<>>, db |-> d]
      ELSE IF ~found
      THEN [kind |-> "alter", result |-> "error", sent |-> renameSent,
            seenColumns |-> <<>>, seenIndexes |-> <<>>, db |-> d1]
      ELSE IF Len(alters) = 0
      THEN [kind |-> "alter", result |-> "ok", sent |-> renameSent,
            seenColumns |-> d1.columns, seenIndexes |-> d1.indexes,
            db |-> d1]
      ELSE [kind |-> "alter",
            result |-> IF ok THEN "ok" ELSE "error",
            sent |-> renameSent \o <<stmt>>,
            seenColumns |-> d1.columns, seenIndexes |-> d1.indexes,
            db |-> IF ok
                   THEN [d1 EXCEPT
                           !.columns = ColumnsAfter(d1, alters, args.columns),
                           !.indexes = IndexesAfter(d1, alters),
                           !.status = StatusAfter(d1.status, args.options)]
                   ELSE d1]

saveTableStructure(args, d, accept) ==
  IF args.isNew THEN saveCreate(args, d, accept)
  ELSE saveAlter(args, d, accept)

\* handleSave with an empty table name: the alert, and nothing is sent
handleSave_NoName ==
  /\ Interactive
  /\ nSaves < MaxSaves
  /\ tableName = ""
  /\ lastSave' = [NoSave EXCEPT !.result = "name_required"]
  /\ nSaves' = nSaves + 1
  /\ UNCHANGED <<table, tableName, isNewTable, columns, indexes, foreignKeys,
                 tableOptions, originalColumns, originalIndexes,
                 originalForeignKeys, originalOptions, loading, error,
                 isDirty, pc, saveArgs, inflight, db, nEdits, tabOpen,
                 closeLog, mutated>>
  /\ Frame

\* handleSave up to the await of db:save-table-structure
handleSave_Invoke ==
  /\ Interactive
  /\ nSaves < MaxSaves
  /\ Len(saveArgs) < MaxSaving
  /\ Len(inflight) + Len(saveArgs) < budget.inflight
  /\ tableName # ""
  /\ loading' = TRUE
  /\ pc' = "saving"
  /\ saveArgs' = Append(saveArgs,
                 [oldTableName |-> IF isNewTable THEN "" ELSE table,
                  newTableName |-> tableName,
                  columns |-> columns,
                  indexes |-> indexes,
                  foreignKeys |-> foreignKeys,
                  options |-> tableOptions,
                  isNew |-> isNewTable,
                  originalColumns |-> originalColumns,
                  originalIndexes |-> originalIndexes,
                  originalForeignKeys |-> originalForeignKeys,
                  originalOptions |-> originalOptions])
  /\ nSaves' = nSaves + 1
  /\ UNCHANGED <<table, tableName, isNewTable, columns, indexes, foreignKeys,
                 tableOptions, originalColumns, originalIndexes,
                 originalForeignKeys, originalOptions, error, isDirty,
                 inflight, db, lastSave, nEdits, tabOpen, closeLog, mutated>>
  /\ Frame

\* the response clears isDirty whatever it is
isDirtyAfterSave_Cleared(result, dirty) == FALSE

\* setIsDirty(false) is reached only when res.success; the else branch
\* and the catch block only alert
isDirtyAfterSave(result, dirty) == IF result = "ok" THEN FALSE ELSE dirty

\* the main process runs saveTableStructure and handleSave resumes with the
\* response: on success it clears isDirty and isNewTable and starts
\* fetchStructure, whose setLoading(true) its own finally block overrides
handleSave_Resume ==
  /\ tabOpen
  /\ \E k \in 1..Len(saveArgs), refused \in BOOLEAN :
       LET out == saveTableStructure(saveArgs[k], db, ~refused)
       IN  /\ db' = out.db
           /\ lastSave' = [kind |-> out.kind, result |-> out.result,
                           sent |-> out.sent, args |-> saveArgs[k],
                           seenColumns |-> out.seenColumns,
                           seenIndexes |-> out.seenIndexes]
           /\ isDirty' = isDirtyAfterSave(out.result, isDirty)
           /\ IF out.result = "ok"
              THEN /\ isNewTable' = FALSE
                   /\ error' = FALSE
                   /\ mutated' = FALSE
                   /\ inflight' = Append(inflight,
                                         FetchResponse(out.db,
                                                       saveArgs[k].newTableName))
              ELSE UNCHANGED <<isNewTable, error, inflight, mutated>>
           /\ saveArgs' = RemoveAt(saveArgs, k)
           /\ pc' = IF Len(saveArgs) = 1 THEN "idle" ELSE "saving"
  /\ loading' = FALSE
  /\ UNCHANGED <<table, tableName, columns, indexes, foreignKeys,
                 tableOptions, originalColumns, originalIndexes,
                 originalForeignKeys, originalOptions, nEdits, nSaves,
                 tabOpen, closeLog>>
  /\ Frame

\* processedFks = fksRes.success ? fksRes.results.map(...) : []
processedFks(fksSuccess, fks) == IF fksSuccess THEN fks ELSE <<>>

\* the responses of db:get-table-extended-info and of
\* db:get-foreign-keys-with-rules arrive; reached = FALSE and
\* fksReached = FALSE stand for a failed round trip of the one and of the
\* other
fetchStructure_Resume(reached, fksReached) ==
  /\ inflight # <<>>
  /\ fksReached \/ budget.fksFail
  /\ LET res == Head(inflight)
     IN  IF reached /\ res.success
         THEN /\ columns' = res.columns
              /\ indexes' = res.indexes
              /\ foreignKeys' = processedFks(fksReached, res.foreignKeys)
              /\ tableOptions' = res.options
              /\ originalColumns' = res.columns
              /\ originalIndexes' = res.indexes
              /\ originalForeignKeys' = processedFks(fksReached,
                                                      res.foreignKeys)
              /\ originalOptions' = res.options
              /\ UNCHANGED error
         ELSE /\ error' = TRUE
              /\ UNCHANGED <<columns, indexes, foreignKeys, tableOptions,
                             originalColumns, originalIndexes,
                             originalForeignKeys, originalOptions>>
  /\ inflight' = Tail(inflight)
  /\ loading' = FALSE
  /\ UNCHANGED <<table, tableName, isNewTable, isDirty, pc, saveArgs, db,
                 lastSave, nEdits, nSaves, tabOpen, closeLog, mutated>>
  /\ Frame

\* the main process finishes a save whose designer is gone: the database
\* changes, the response reaches no component
handleSave_ResumeUnmounted ==
  /\ ~tabOpen
  /\ \E k \in 1..Len(saveArgs), refused \in BOOLEAN :
       /\ db' = saveTableStructure(saveArgs[k], db, ~refused).db
       /\ saveArgs' = RemoveAt(saveArgs, k)
       /\ pc' = IF Len(saveArgs) = 1 THEN "idle" ELSE "saving"
  /\ UNCHANGED <<table, tableName, isNewTable, columns, indexes, foreignKeys,
                 tableOptions, originalColumns, originalIndexes,
                 originalForeignKeys, originalOptions, loading, error,
                 isDirty, inflight, lastSave, nEdits, nSaves, tabOpen,
                 closeLog, mutated>>
  /\ Frame

----------------------------------------------------------------------------
(* Closing the design tab *)

\* the tab leaves the tabs of App: the designer unmounts, its state is
\* discarded and responses still under way reach no component
Unmount(confirmed) ==
  /\ tabOpen' = FALSE
  /\ closeLog' = [dirty |-> isDirty, confirmed |-> confirmed]
  /\ tableName' = ""
  /\ isNewTable' = FALSE
  /\ columns' = <<>>
  /\ indexes' = <<>>
  /\ foreignKeys' = <<>>
  /\ tableOptions' = EmptyOptions
  /\ originalColumns' = <<>>
  /\ originalIndexes' = <<>>
  /\ originalForeignKeys' = <<>>
  /\ originalOptions' = EmptyOptions
  /\ loading' = FALSE
  /\ error' = FALSE
  /\ isDirty' = FALSE
  /\ inflight' = <<>>
  /\ lastSave' = NoSave
  /\ mutated' = FALSE
  /\ nEdits' = 0
  /\ nSaves' = 0
  /\ UNCHANGED <<table, pc, saveArgs, db>>
  /\ Frame

\* the close button of the designer: window.confirm when isDirty, then
\* onClose = handleCloseDesigner of App; answer is the user's answer
handleClose(answer) ==
  /\ Interactive
  /\ IF isDirty /\ ~answer
     THEN UNCHANGED vars
     ELSE Unmount(isDirty)

\* the close button of the tab in the tab bar of App
handleCloseTab ==
  /\ tabOpen
  /\ Unmount(FALSE)

\* Close Database in the sidebar: App drops every tab of the database
handleCloseDatabase ==
  /\ tabOpen
  /\ Unmount(FALSE)

----------------------------------------------------------------------------

INDEX_KIND_INPUTS == {"UNIQUE"}

ENGINE_INPUTS == {""}

CHARSET_INPUTS == {""}

NULL_INPUTS == {"NO"}

AUTO_INCREMENT_INPUTS == BOOLEAN

LENGTH_INPUTS == {<<"20">>}

Next ==
  \/ \E i \in 1..MaxCols, v \in FieldInputs : handleUpdateColumn_Field(i, v)
  \/ \E i \in 1..MaxCols, v \in NULL_INPUTS : handleUpdateColumn_Null(i, v)
  \/ \E i \in 1..MaxCols, v \in LENGTH_INPUTS :
       handleUpdateColumn_Length(i, v)
  \/ \E i \in 1..MaxCols, v \in AUTO_INCREMENT_INPUTS :
       handleUpdateColumn_AutoIncrement(i, v)
  \/ handleAddColumn
  \/ \E i \in 1..MaxCols : handleDeleteColumn(i)
  \/ handleAddIndex
  \/ \E i \in 1..MaxIdx, v \in KeyNameInputs : handleUpdateIndex_Key_name(i, v)
  \/ \E i \in 1..MaxIdx, v \in FieldInputs \cup {"id", "new_column"} :
       handleUpdateIndex_Column_name(i, v)
  \/ \E i \in 1..MaxIdx, v \in INDEX_KIND_INPUTS :
       handleUpdateIndex_IndexKind(i, v)
  \/ \E i \in 1..MaxIdx : handleDeleteIndex(i)
  \/ handleAddForeignKey
  \/ \E i \in 1..MaxFks, v \in FkRuleInputs :
       handleUpdateForeignKey_DELETE_RULE(i, v)
  \/ \E i \in 1..MaxFks, v \in FieldInputs \cup {"id", "new_column"} :
       handleUpdateForeignKey_COLUMN_NAME(i, v)
  \/ \E i \in 1..MaxFks : handleDeleteForeignKey(i)
  \/ \E v \in ENGINE_INPUTS : handleUpdateOptions_Engine(v)
  \/ \E v \in CHARSET_INPUTS : handleUpdateOptions_Charset(v)
  \/ \E v \in TableNameInputs : setTableName(v)
  \/ handleSave_NoName
  \/ handleSave_Invoke
  \/ handleSave_Resume
  \/ \E reached \in BOOLEAN, fksReached \in BOOLEAN :
       fetchStructure_Resume(reached, fksReached)
  \/ handleSave_ResumeUnmounted
  \/ \E answer \in BOOLEAN : handleClose(answer)
  \/ handleCloseTab
  \/ handleCloseDatabase

Spec == Init /\ [][Next]_vars

----------------------------------------------------------------------------
(* The column definition of one column, as a function of the column *)

\* the SQL preview's buildColumnDef (generateSqlPreview)
previewColumnDef(col) ==
  Quoted(col.Field) \o col.Type
  \o (IF col.Unsigned /\ ~TypeIncludes(col.Type, "unsigned")
      THEN <<"UNSIGNED">> ELSE <<>>)
  \o (IF col.Zerofill /\ ~TypeIncludes(col.Type, "zerofill")
      THEN <<"ZEROFILL">> ELSE <<>>)
  \o (IF Truthy(col.Charset) /\ col.Charset # "Default"
      THEN <<"CHARACTER SET", col.Charset>> ELSE <<>>)
  \o (IF Truthy(col.Collation) /\ col.Collation # "Default"
      THEN <<"COLLATE", col.Collation>> ELSE <<>>)
  \o (IF col.Null = "NO" THEN <<"NOT NULL">> ELSE <<"NULL">>)
  \o (IF col.Default # NullValue /\ col.Default # ""
      THEN (IF col.Default = "CURRENT_TIMESTAMP"
            THEN <<"DEFAULT", "CURRENT_TIMESTAMP">>
            ELSE IF col.Default = "NULL"
            THEN <<"DEFAULT", "NULL">>
            ELSE <<"DEFAULT", "'", col.Default, "'">>)
      ELSE IF col.Null = "YES"
      THEN <<"DEFAULT", "NULL">>
      ELSE <<>>)
  \o (IF col.AutoIncrement THEN <<"AUTO_INCREMENT">> ELSE <<>>)
  \o (IF Truthy(col.Comment) THEN <<"COMMENT", "'", col.Comment, "'">>
      ELSE <<>>)

\* what the Default cell of a column may hold: null as loaded, the empty
\* string after the input was cleared, the two keywords, and typed text
DefaultInputs ==
  {NullValue, "", "NULL", "CURRENT_TIMESTAMP", "abc", "O'Brien", "a\\b"}

ColumnDefInputs ==
  [Field : {"c"}, Type : {TypeInt, TypeVarchar}, Unsigned : {FALSE},
   Zerofill : {FALSE}, Charset : {NullValue}, Collation : {NullValue},
   Null : {"YES", "NO"}, Default : DefaultInputs,
   Extra : {"", "auto_increment"}, AutoIncrement : BOOLEAN,
   Comment : {NullValue}]

InitColumnDef ==
  /\ InitNew
  /\ budget = [edits |-> MaxEdits, inflight |-> MaxInflight,
               fksFail |-> FALSE]
  /\ fnIn \in {c \in ColumnDefInputs :
                 c.AutoIncrement = (c.Extra = "auto_increment")}
  /\ fnOut = NoFn
  /\ InitApp
  /\ InitSidebar
  /\ viewer = NoViewer

Designer ==
  <<table, tableName, isNewTable, columns, indexes, foreignKeys,
    tableOptions, originalColumns, originalIndexes, originalForeignKeys,
    originalOptions, loading, error, isDirty, pc, saveArgs, inflight,
    db, lastSave, nEdits, nSaves, tabOpen, closeLog, mutated, budget>>

\* saveTableStructure renders the column
applyBuildColumnDef ==
  /\ fnOut = NoFn
  /\ fnOut' = [by |-> "buildColumnDef", def |-> buildColumnDef(fnIn)]
  /\ UNCHANGED <<Designer, fnIn, app, sidebar, viewer>>

\* the SQL preview renders the column
applyPreviewColumnDef ==
  /\ fnOut = NoFn
  /\ fnOut' = [by |-> "previewColumnDef", def |-> previewColumnDef(fnIn)]
  /\ UNCHANGED <<Designer, fnIn, app, sidebar, viewer>>

NextColumnDef == applyBuildColumnDef \/ applyPreviewColumnDef

SpecColumnDef == InitColumnDef /\ [][NextColumnDef]_vars

----------------------------------------------------------------------------
(* What a completed save sent *)

SentKinds == [i \in 1..Len(lastSave.sent) |-> lastSave.sent[i].kind]

AlterSent ==
  /\ lastSave.kind = "alter"
  /\ lastSave.sent # <<>>
  /\ lastSave.sent[Len(lastSave.sent)].kind = "ALTER TABLE"

CreateSent ==
  /\ lastSave.kind = "create"
  /\ lastSave.sent # <<>>
  /\ lastSave.sent[Len(lastSave.sent)].kind = "CREATE TABLE"

\* the clauses of the ALTER / CREATE statement of the completed save
SentClauses == lastSave.sent[Len(lastSave.sent)].clauses

CountOp(clauses, ops, name) ==
  Cardinality({i \in 1..Len(clauses) :
                 clauses[i].op \in ops /\ clauses[i].name = name})

CountTarget(clauses, ops, target) ==
  Cardinality({i \in 1..Len(clauses) :
                 clauses[i].op \in ops /\ TargetOf(clauses[i]) = target})

KeyNames(idxs) == {idxs[i].Key_name : i \in 1..Len(idxs)}

\* the save was started with nothing edited since the load
SavedUnedited ==
  /\ lastSave.args.columns = lastSave.args.originalColumns
  /\ lastSave.args.indexes = lastSave.args.originalIndexes
  /\ lastSave.args.foreignKeys = lastSave.args.originalForeignKeys
  /\ lastSave.args.options = lastSave.args.originalOptions
  /\ lastSave.args.newTableName = lastSave.args.oldTableName

----------------------------------------------------------------------------
(* C1 *)

\* C1: a save of an existing table with nothing edited since the load fails
\* and sends no ALTER TABLE; a save whose clause list is empty is not
\* reported as a success.
C1_NoOpSaveRejected ==
  /\ (lastSave.kind = "alter" /\ SavedUnedited)
       => (lastSave.result # "ok" /\ "ALTER TABLE" \notin Range(SentKinds))
  /\ (lastSave.kind = "alter" /\ "ALTER TABLE" \notin Range(SentKinds))
       => lastSave.result # "ok"

----------------------------------------------------------------------------
(* C2 *)

\* column i of the saved list is an existing column of the table
MatchedColumn(i) ==
  /\ ~lastSave.args.columns[i].isNew
  /\ HasField(lastSave.seenColumns, lastSave.args.columns[i].originalField)

\* C2: in the ALTER of an existing-table save every saved column that is not
\* new and whose originalField names a column of the table yields exactly
\* one column clause, CHANGE COLUMN originalField <definition> when its name
\* differs from originalField and MODIFY COLUMN <definition> otherwise; the
\* old name of a renamed column is not dropped, and ADD COLUMN clauses come
\* only from the other columns.
C2_RenameOrModify ==
  AlterSent =>
    LET cols == lastSave.args.columns
        cl == SentClauses
    IN  /\ \A i \in 1..Len(cols) :
             MatchedColumn(i) =>
               /\ CountTarget(cl, {"CHANGE COLUMN", "MODIFY COLUMN"},
                              cols[i].originalField) = 1
               /\ CountOp(cl, {"DROP COLUMN"}, cols[i].originalField) = 0
               /\ IF cols[i].Field # cols[i].originalField
                  THEN Clause("CHANGE COLUMN", cols[i].Field,
                              cols[i].originalField, <<>>,
                              Quoted(cols[i].originalField)
                              \o buildColumnDef(cols[i])) \in Range(cl)
                  ELSE Clause("MODIFY COLUMN", cols[i].Field, "", <<>>,
                              buildColumnDef(cols[i])) \in Range(cl)
        /\ Len(OfOps(cl, {"CHANGE COLUMN", "MODIFY COLUMN"}))
             = Cardinality({i \in 1..Len(cols) : MatchedColumn(i)})
        /\ Len(OfOps(cl, {"ADD COLUMN"}))
             = Cardinality({i \in 1..Len(cols) : ~MatchedColumn(i)})

\* an accepted ALTER that renamed one existing column and kept another
C2_Witness ==
  /\ AlterSent
  /\ lastSave.result = "ok"
  /\ \E i, j \in 1..Len(lastSave.args.columns) :
       /\ MatchedColumn(i) /\ MatchedColumn(j)
       /\ lastSave.args.columns[i].Field
            # lastSave.args.columns[i].originalField
       /\ lastSave.args.columns[j].Field
            = lastSave.args.columns[j].originalField

----------------------------------------------------------------------------
(* C3 *)

\* C3: DROP COLUMN x is emitted exactly once for every column x of the
\* table that no saved column matches by originalField or by Field, and for
\* no other column.
C3_DropExactlyUnmatched ==
  AlterSent =>
    LET cols == lastSave.args.columns
        cl == SentClauses
        matched(x) == \E i \in 1..Len(cols) :
                        cols[i].originalField = x \/ cols[i].Field = x
    IN  /\ \A x \in Range(FieldsOf(lastSave.seenColumns)) :
             CountOp(cl, {"DROP COLUMN"}, x) = IF matched(x) THEN 0 ELSE 1
        /\ \A i \in 1..Len(cl) :
             cl[i].op = "DROP COLUMN"
               => cl[i].name \in Range(FieldsOf(lastSave.seenColumns))

----------------------------------------------------------------------------
(* C4 *)

ClauseRank(c) ==
  IF c.op = "ADD COLUMN" THEN 1
  ELSE IF c.op \in {"CHANGE COLUMN", "MODIFY COLUMN"} THEN 2
  ELSE IF c.op = "DROP COLUMN" THEN 3
  ELSE IF c.op \in {"DROP INDEX", "DROP PRIMARY KEY"} THEN 4
  ELSE IF c.op = "ADD INDEX" THEN 5
  ELSE IF c.op \in {"DROP FOREIGN KEY", "ADD CONSTRAINT"} THEN 6
  ELSE 7

AnyOption(options) ==
  \/ Truthy(options.Engine) \/ Truthy(options.Charset)
  \/ Truthy(options.Collation) \/ Truthy(options.Comment)
  \/ Truthy(options.Auto_increment) \/ Truthy(options.Row_format)

\* C4: the clauses of the ALTER are ordered column adds, column
\* modifies/changes, column drops, index drops, index adds, foreign-key
\* clauses, and last one options clause, present exactly when an option is
\* non-empty.
C4_ClauseOrder ==
  AlterSent =>
    LET cl == SentClauses
    IN  /\ \A i, j \in 1..Len(cl) :
             i < j => ClauseRank(cl[i]) <= ClauseRank(cl[j])
        /\ Len(OfOps(cl, {"OPTIONS"}))
             = IF AnyOption(lastSave.args.options) THEN 1 ELSE 0

----------------------------------------------------------------------------
(* C5, C6 *)

FkChanged(fk, orig) ==
  \/ fk.COLUMN_NAME # orig.COLUMN_NAME
  \/ fk.REFERENCED_TABLE_NAME # orig.REFERENCED_TABLE_NAME
  \/ fk.REFERENCED_COLUMN_NAME # orig.REFERENCED_COLUMN_NAME
  \/ fk.UPDATE_RULE # orig.UPDATE_RULE
  \/ fk.DELETE_RULE # orig.DELETE_RULE

\* C5: an existing foreign key (not new, not deleted) that differs from the
\* original of the same originalName yields exactly one DROP FOREIGN KEY
\* originalName and exactly one ADD CONSTRAINT with the new definition; an
\* unchanged one yields neither.
C5_FkModifyDropsAndAdds ==
  AlterSent =>
    LET fks == lastSave.args.foreignKeys
        origs == lastSave.args.originalForeignKeys
        cl == SentClauses
    IN  \A i \in 1..Len(fks) : \A o \in 1..Len(origs) :
          (/\ ~fks[i].isNew /\ ~fks[i].isDeleted
           /\ origs[o].CONSTRAINT_NAME = fks[i].originalName)
            => IF FkChanged(fks[i], origs[o])
               THEN /\ CountOp(cl, {"DROP FOREIGN KEY"}, fks[i].originalName) = 1
                    /\ Cardinality({k \in 1..Len(cl) :
                          cl[k].op = "ADD CONSTRAINT"
                          /\ cl[k].def = buildFkDef(fks[i])}) = 1
               ELSE /\ CountOp(cl, {"DROP FOREIGN KEY"}, fks[i].originalName) = 0
                    /\ CountOp(cl, {"ADD CONSTRAINT"}, fks[i].CONSTRAINT_NAME) = 0

\* C6: the ALTER contains DROP FOREIGN KEY originalName for the foreign keys
\* marked isDeleted that have an originalName, and ADD CONSTRAINT for the
\* foreign keys marked isNew and not deleted.
C6_FkDropsAndAdds ==
  AlterSent =>
    LET fks == lastSave.args.foreignKeys
        cl == SentClauses
    IN  \A i \in 1..Len(fks) :
          /\ (fks[i].isDeleted /\ Truthy(fks[i].originalName))
               => CountOp(cl, {"DROP FOREIGN KEY"}, fks[i].originalName) = 1
          /\ (fks[i].isNew /\ ~fks[i].isDeleted)
               => CountOp(cl, {"ADD CONSTRAINT"}, fks[i].CONSTRAINT_NAME) = 1

----------------------------------------------------------------------------
(* C3 as the code has it *)

\* C3 (amended): DROP COLUMN x is emitted exactly once for every column x of
\* the table that is the originalField of no saved column that is not new,
\* and for no other column; a new column that merely has the name x does
\* not keep x from being dropped.
C3_DropExactlyUnprocessed ==
  AlterSent =>
    LET cols == lastSave.args.columns
        cl == SentClauses
        kept(x) == \E i \in 1..Len(cols) :
                     ~cols[i].isNew /\ cols[i].originalField = x
    IN  /\ \A x \in Range(FieldsOf(lastSave.seenColumns)) :
             CountOp(cl, {"DROP COLUMN"}, x) = IF kept(x) THEN 0 ELSE 1
        /\ \A i \in 1..Len(cl) :
             cl[i].op = "DROP COLUMN"
               => cl[i].name \in Range(FieldsOf(lastSave.seenColumns))

\* a column was deleted, a new column took its name, and the ALTER both
\* adds and drops that name
C3_Witness ==
  /\ AlterSent
  /\ \E i \in 1..Len(lastSave.args.columns) :
       /\ lastSave.args.columns[i].isNew
       /\ HasField(lastSave.seenColumns, lastSave.args.columns[i].Field)
       /\ CountOp(SentClauses, {"DROP COLUMN"},
                  lastSave.args.columns[i].Field) = 1
       /\ CountOp(SentClauses, {"ADD COLUMN"},
                  lastSave.args.columns[i].Field) = 1

----------------------------------------------------------------------------
(* C7, C8, C9: saving a new table *)

LiveFks(fks) == SelectSeq(fks, LAMBDA fk : ~fk.isDeleted)

\* C7: saving a new table sends exactly one CREATE TABLE that renders every
\* column once in array order, then one index definition per key name, then
\* every foreign key not marked deleted, then the options.
C7_CreateRendersEverything ==
  CreateSent =>
    LET cols == lastSave.args.columns
        fks == LiveFks(lastSave.args.foreignKeys)
        cl == SentClauses
        nIdx == Cardinality(KeyNames(lastSave.args.indexes))
    IN  /\ Len(lastSave.sent) = 1
        /\ Len(cl) = Len(cols) + nIdx + Len(fks)
        /\ \A i \in 1..Len(cols) :
             cl[i] = Clause("COLUMN", cols[i].Field, "", <<>>,
                            buildColumnDef(cols[i]))
        /\ \A k \in KeyNames(lastSave.args.indexes) :
             \E i \in (Len(cols) + 1)..(Len(cols) + nIdx) :
               cl[i].op = "INDEX" /\ cl[i].name = k
        /\ \A f \in 1..Len(fks) :
             cl[Len(cols) + nIdx + f].def = buildFkDef(fks[f])
        /\ lastSave.sent[1].tail = createOptions(lastSave.args.options)

\* position of the first row of key k in the index array
FirstRow(idxs, k) ==
  CHOOSE i \in 1..Len(idxs) :
    idxs[i].Key_name = k /\ \A j \in 1..(i - 1) : idxs[j].Key_name # k

\* C8: in the CREATE TABLE statement the PRIMARY KEY definition, if there is
\* one, precedes every other index definition wherever the PRIMARY row sits
\* in the index array, and the other indexes follow in array order.
C8_PrimaryKeyFirst ==
  CreateSent =>
    LET idxs == lastSave.args.indexes
        defs == OfOps(SentClauses, {"INDEX"})
    IN  /\ "PRIMARY" \in KeyNames(idxs) => defs[1].name = "PRIMARY"
        /\ \A p, q \in 1..Len(defs) :
             (p < q /\ defs[p].name # "PRIMARY" /\ defs[q].name # "PRIMARY")
               => FirstRow(idxs, defs[p].name) < FirstRow(idxs, defs[q].name)

\* C8 (amended): the CREATE TABLE statement has one index definition per key
\* name; key names that are canonical array indexes come first in ascending
\* numeric order, the others follow in the order of their first row in the
\* index array.  The PRIMARY KEY definition is therefore first only when no
\* key name is an array index and the PRIMARY row precedes the rows of every
\* other key.
C8_IndexDefsInGroupOrder ==
  CreateSent =>
    LET idxs == lastSave.args.indexes
        defs == OfOps(SentClauses, {"INDEX"})
    IN  /\ Len(defs) = Cardinality(KeyNames(idxs))
        /\ \A k \in KeyNames(idxs) : \E p \in 1..Len(defs) : defs[p].name = k
        /\ \A p, q \in 1..Len(defs) :
             p < q =>
               /\ IsArrayIndexKey(defs[q].name) => IsArrayIndexKey(defs[p].name)
               /\ (IsArrayIndexKey(defs[p].name) /\ IsArrayIndexKey(defs[q].name))
                    => ArrayIndexValue(defs[p].name)
                         < ArrayIndexValue(defs[q].name)
               /\ (~IsArrayIndexKey(defs[p].name) /\ ~IsArrayIndexKey(defs[q].name))
                    => FirstRow(idxs, defs[p].name)
                         < FirstRow(idxs, defs[q].name)
        /\ ("PRIMARY" \in KeyNames(idxs)
            /\ FirstRow(idxs, "PRIMARY") = 1
            /\ \A k \in KeyNames(idxs) : ~IsArrayIndexKey(k))
             => defs[1].name = "PRIMARY"

\* a CREATE TABLE whose index array has a PRIMARY row after the row of
\* another key, rendered with PRIMARY KEY after that key
C8_Witness ==
  /\ CreateSent
  /\ \E p \in 1..Len(OfOps(SentClauses, {"INDEX"})) :
       /\ p > 1
       /\ OfOps(SentClauses, {"INDEX"})[p].name = "PRIMARY"
       /\ ~IsArrayIndexKey(OfOps(SentClauses, {"INDEX"})[1].name)

\* C9: saving a new table whose column list is empty fails before any
\* statement is sent to the database.
C9_EmptyCreateRejected ==
  (lastSave.kind = "create" /\ lastSave.args.columns = <<>>)
    => (lastSave.result # "ok" /\ lastSave.sent = <<>>)

----------------------------------------------------------------------------
(* C10 *)

IndexDropOps == {"DROP INDEX", "DROP PRIMARY KEY"}

\* C10: every index key name of the table yields exactly one drop clause
\* (DROP PRIMARY KEY for PRIMARY, DROP INDEX otherwise), whether or not the
\* edited index list still has it; every distinct key name of the edited
\* list yields exactly one ADD clause; all index drops precede all index
\* adds; after an accepted statement the key names of the table are those
\* of the edited list.
C10_IndexesDroppedAndReadded ==
  AlterSent =>
    LET cl == SentClauses
        old == KeyNames(lastSave.seenIndexes)
        new == KeyNames(lastSave.args.indexes)
    IN  /\ \A k \in old :
             /\ CountOp(cl, IndexDropOps, k) = 1
             /\ CountOp(cl, {IF k = "PRIMARY" THEN "DROP PRIMARY KEY"
                             ELSE "DROP INDEX"}, k) = 1
        /\ \A k \in new : CountOp(cl, {"ADD INDEX"}, k) = 1
        /\ Len(OfOps(cl, IndexDropOps)) = Cardinality(old)
        /\ Len(OfOps(cl, {"ADD INDEX"})) = Cardinality(new)
        /\ \A i, j \in 1..Len(cl) :
             (cl[i].op \in IndexDropOps /\ cl[j].op = "ADD INDEX") => i < j
        /\ lastSave.result = "ok" => KeyNames(db.indexes) = new

\* an accepted ALTER on a table whose index is still in the edited list,
\* next to an index the user added
C10_Witness ==
  /\ AlterSent
  /\ lastSave.result = "ok"
  /\ KeyNames(lastSave.seenIndexes) \cap KeyNames(lastSave.args.indexes) # {}
  /\ KeyNames(lastSave.args.indexes) \ KeyNames(lastSave.seenIndexes) # {}

----------------------------------------------------------------------------
(* The raw type string, as a function of its four parts *)

\* the type names the Type select offers (some of MYSQL_TYPES)
MYSQL_TYPES == {<<"int">>, <<"varchar">>, <<"decimal">>, <<"enum">>}

\* what the Length input may hold: nothing, a length, a precision, and
\* free text with parentheses and a suffix word in it
LengthInputs ==
  {EmptyText, <<"11">>, <<"10", ",", "2">>,
   <<"5", ")", " ", "unsigned">>, <<"1", ")", " ", "(", "2">>}

TypeInputs ==
  [t : MYSQL_TYPES, l : LengthInputs, u : BOOLEAN, z : BOOLEAN]

InitType ==
  /\ InitNew
  /\ budget = [edits |-> MaxEdits, inflight |-> MaxInflight,
               fksFail |-> FALSE]
  /\ fnIn \in TypeInputs
  /\ fnOut = NoFn
  /\ InitApp
  /\ InitSidebar
  /\ viewer = NoViewer

\* handleUpdateColumn reconstructs the Type string
applyComposeType ==
  /\ fnOut = NoFn
  /\ fnOut' = [by |-> "composeType",
               raw |-> composeType(fnIn.t, fnIn.l, fnIn.u, fnIn.z)]
  /\ UNCHANGED <<Designer, fnIn, app, sidebar, viewer>>

\* fetchStructure parses the Type string the database reports
applyParseType ==
  /\ fnOut # NoFn
  /\ fnOut.by = "composeType"
  /\ fnOut' = [by |-> "parseType", raw |-> fnOut.raw,
               parsed |-> parseType(fnOut.raw)]
  /\ UNCHANGED <<Designer, fnIn, app, sidebar, viewer>>

NextType == applyComposeType \/ applyParseType

SpecType == InitType /\ [][NextType]_vars

----------------------------------------------------------------------------
(* C11, C12: the DEFAULT clause of a column definition *)

\* the characters of a typed default value; a keyword is one lexeme
Chars(v) ==
  CASE v = "abc" -> <<"a", "b", "c">>
    [] v = "O'Brien" -> <<"O", "'", "B", "r", "i", "e", "n">>
    [] v = "a\\b" -> <<"a", "\\", "b">>
    [] OTHER -> <<v>>

\* a rendered definition, character by character where text was typed
ExpandChars(def) == Flatten([i \in 1..Len(def) |-> Chars(def[i])])

RECURSIVE Escape(_)
\* each single quote doubled and each backslash doubled
Escape(cs) ==
  IF cs = <<>> THEN <<>>
  ELSE (IF Head(cs) \in {"'", "\\"} THEN <<Head(cs), Head(cs)>>
        ELSE <<Head(cs)>>) \o Escape(Tail(cs))

\* what follows the DEFAULT clause in a column definition
TrailerLexemes == {"auto_increment", "AUTO_INCREMENT", "COMMENT"}

\* the DEFAULT clause of a column definition, empty when there is none
DefaultPart(def) ==
  IF "DEFAULT" \notin Range(def) THEN <<>>
  ELSE LET from == CHOOSE i \in 1..Len(def) : def[i] = "DEFAULT"
           stops == {i \in (from + 1)..Len(def) : def[i] \in TrailerLexemes}
           to == IF stops = {} THEN Len(def)
                 ELSE (CHOOSE i \in stops : \A j \in stops : i <= j) - 1
       IN  SubSeq(def, from, to)

\* C11: a non-empty default is rendered as DEFAULT CURRENT_TIMESTAMP or
\* DEFAULT NULL without quotes when it is one of these keywords, and
\* otherwise between single quotes with each single quote and each
\* backslash of the value doubled
C11_DefaultEscaped ==
  fnOut # NoFn =>
    LET part == ExpandChars(DefaultPart(fnOut.def))
        value == fnIn.Default
    IN  Truthy(value) =>
          part = IF value \in {"CURRENT_TIMESTAMP", "NULL"}
                 THEN <<"DEFAULT", value>>
                 ELSE <<"DEFAULT", "'">> \o Escape(Chars(value)) \o <<"'">>

\* C12: with an empty default (null or ''), a nullable column is rendered
\* with an explicit DEFAULT NULL and a NOT NULL column without a DEFAULT
\* clause
C12_EmptyDefault ==
  (fnOut # NoFn /\ fnOut.by = "buildColumnDef" /\ ~Truthy(fnIn.Default)) =>
    DefaultPart(fnOut.def) = IF fnIn.Null = "YES" THEN <<"DEFAULT", "NULL">>
                             ELSE <<>>

----------------------------------------------------------------------------
(* C13: type round trip *)

Parsed == fnOut # NoFn /\ fnOut.by = "parseType"

\* C13 as stated: composing a raw type from (baseType, lengthSpec,
\* unsigned, zerofill) and parsing it returns the same four values, also
\* when lengthSpec is empty
C13_RoundTripExact ==
  Parsed =>
    fnOut.parsed = [type |-> fnIn.t, length |-> fnIn.l,
                    unsigned |-> fnIn.u, zerofill |-> fnIn.z]

\* C13 as the code has it: composing a raw type and parsing it returns the
\* same base type, unsigned and zerofill, and the same lengthSpec when it
\* is not empty; for the empty lengthSpec the parsed length is undefined
C13_RoundTrip ==
  Parsed =>
    fnOut.parsed = [type |-> fnIn.t,
                    length |-> IF fnIn.l = EmptyText THEN UndefinedText
                               ELSE fnIn.l,
                    unsigned |-> fnIn.u, zerofill |-> fnIn.z]

\* a length with a closing parenthesis in it was composed with a suffix
\* and parsed back
C13_Witness ==
  /\ Parsed
  /\ fnIn.l = <<"1", ")", " ", "(", "2">>
  /\ fnIn.u
  /\ fnOut.parsed.length = fnIn.l

----------------------------------------------------------------------------
(* C14: closing a dirty session *)

\* C14: a session with unsaved changes is closed only after the user was
\* prompted and confirmed, whichever way it is closed (the close button
\* of the designer, the close button of the tab, Close Database)
C14_DirtyCloseConfirmed ==
  (~tabOpen /\ closeLog.dirty) => closeLog.confirmed

----------------------------------------------------------------------------
(* C15: a failed save *)

\* a handleSave of the open designer resumes with a failure
FailedSaveStep ==
  /\ tabOpen
  /\ Len(saveArgs') < Len(saveArgs)
  /\ lastSave'.result = "error"

----------------------------------------------------------------------------
(* C16: while a save is in flight *)

\* C16: while a save of the open designer is in flight, no step is a
\* mutation and no step starts a second save: at most one save of the
\* session is executing at any time
C16_NothingStartsWhileSaving ==
  [][(tabOpen /\ saveArgs # <<>>) =>
       /\ nEdits' <= nEdits
       /\ Len(saveArgs') <= Len(saveArgs)]_vars

----------------------------------------------------------------------------
(* C17: statements per save *)

\* C17: a save that reaches the database hands it exactly one statement,
\* a CREATE TABLE or an ALTER TABLE, also when the table name was edited
C17_OneStatementPerSave ==
  lastSave.kind \in {"create", "alter"} =>
    /\ Len(lastSave.sent) = 1
    /\ lastSave.sent[1].kind \in {"CREATE TABLE", "ALTER TABLE"}

----------------------------------------------------------------------------
(* C18: the dirty flag *)

\* a handleSave of the open designer resumes with success
SucceededSaveStep ==
  /\ tabOpen
  /\ Len(saveArgs') < Len(saveArgs)
  /\ lastSave'.result = "ok"

\* C18: isDirty is set exactly when a mutation handler (column, index,
\* foreign key, option or table name) ran since the table was opened or a
\* save succeeded; every mutation step sets it, and it is cleared only by
\* a successful save (or with the session, when the tab is closed)
C18_DirtyIffMutated ==
  [][/\ isDirty' = mutated'
     /\ (nEdits' > nEdits => isDirty')
     /\ ((isDirty /\ ~isDirty') => (SucceededSaveStep \/ ~tabOpen'))]_vars

\* an edited session was saved with success and is not Dirty any more,
\* while its reload is still under way
C18_Witness ==
  /\ tabOpen
  /\ nEdits > 0
  /\ lastSave.result = "ok"
  /\ inflight # <<>>
  /\ ~isDirty

----------------------------------------------------------------------------
(* C19: the bookkeeping fields *)

\* a mutation handler runs
MutationStep == nEdits' > nEdits

\* position i of the list after the step is an entry appended by it
Created(before, after, i) ==
  /\ Len(after) = Len(before) + 1
  /\ i = Len(after)
  /\ SubSeq(after, 1, Len(before)) = before

\* C19: a mutation that edits a column changes that one column only and
\* leaves its originalField and isNew as they were; when the number of
\* columns or foreign keys changes, the only entry that was not in the
\* list before is the one the step created, appended with isNew set; a
\* mutation that keeps the number of foreign keys leaves originalName and
\* isNew of each as they were, and changes isDeleted only by marking an
\* existing (not new) foreign key as deleted, changing nothing else
C19_BookkeepingKept ==
  [][MutationStep =>
       /\ Len(columns') = Len(columns) =>
            /\ Cardinality({i \in 1..Len(columns) :
                              columns'[i] # columns[i]}) <= 1
            /\ \A i \in 1..Len(columns) :
                 /\ columns'[i].originalField = columns[i].originalField
                 /\ columns'[i].isNew = columns[i].isNew
       /\ Len(columns') # Len(columns) =>
            \A i \in 1..Len(columns') :
              columns'[i] \notin Range(columns) =>
                columns'[i].isNew /\ Created(columns, columns', i)
       /\ Len(foreignKeys') # Len(foreignKeys) =>
            \A i \in 1..Len(foreignKeys') :
              foreignKeys'[i] \notin Range(foreignKeys) =>
                foreignKeys'[i].isNew /\ Created(foreignKeys, foreignKeys', i)
       /\ Len(foreignKeys') = Len(foreignKeys) =>
            \A i \in 1..Len(foreignKeys) :
              /\ foreignKeys'[i].originalName = foreignKeys[i].originalName
              /\ foreignKeys'[i].isNew = foreignKeys[i].isNew
              /\ foreignKeys'[i].isDeleted # foreignKeys[i].isDeleted =>
                   /\ ~foreignKeys[i].isNew
                   /\ foreignKeys'[i] =
                        [foreignKeys[i] EXCEPT !.isDeleted = TRUE]]_vars

\* a loaded column was renamed and is still tracked under the name it
\* was loaded with, and a loaded foreign key is marked deleted
C19_Witness ==
  /\ tabOpen
  /\ \E i \in 1..Len(columns) :
       /\ ~columns[i].isNew
       /\ columns[i].Field # columns[i].originalField
       /\ columns[i].originalField = originalColumns[i].Field
  /\ \E i \in 1..Len(foreignKeys) :
       foreignKeys[i].isDeleted /\ ~foreignKeys[i].isNew

----------------------------------------------------------------------------
(* C20: auto-increment columns *)

\* C20: in every state of the editor at most one column has
\* auto-increment set, and every auto-increment column is named by a row
\* of the index list
C20_AutoIncrementKeyed ==
  LET auto == {i \in 1..Len(columns) : columns[i].AutoIncrement}
  IN  /\ Cardinality(auto) <= 1
      /\ \A i \in auto :
           \E j \in 1..Len(indexes) :
             indexes[j].Column_name = columns[i].Field

----------------------------------------------------------------------------
(* C21: the snapshot a load installs *)

\* the responses of a fetchStructure reach the open designer
LoadArrivalStep ==
  /\ tabOpen'
  /\ inflight # <<>>
  /\ inflight' = Tail(inflight)

\* C21: a load installs, as current and as original, the columns, indexes,
\* options and foreign keys of the table all together, or it ends in the
\* error state and installs nothing
C21_SnapshotAllOrNothing ==
  [][LoadArrivalStep =>
       LET res == Head(inflight)
       IN  \/ /\ error'
              /\ UNCHANGED <<columns, indexes, foreignKeys, tableOptions,
                             originalColumns, originalIndexes,
                             originalForeignKeys, originalOptions>>
           \/ /\ columns' = res.columns
              /\ indexes' = res.indexes
              /\ foreignKeys' = res.foreignKeys
              /\ tableOptions' = res.options
              /\ originalColumns' = res.columns
              /\ originalIndexes' = res.indexes
              /\ originalForeignKeys' = res.foreignKeys
              /\ originalOptions' = res.options]_vars

----------------------------------------------------------------------------
(* C22: columns without originalField *)

\* the saved columns without originalField that carry the name x
Untracked(x) ==
  {i \in 1..Len(lastSave.args.columns) :
     /\ ~Truthy(lastSave.args.columns[i].originalField)
     /\ lastSave.args.columns[i].Field = x}

\* the saved columns named x whose originalField is a column the table
\* no longer has (the save adds them too)
Stale(x) ==
  {i \in 1..Len(lastSave.args.columns) :
     /\ Truthy(lastSave.args.columns[i].originalField)
     /\ lastSave.args.columns[i].Field = x
     /\ ~HasField(lastSave.seenColumns,
                  lastSave.args.columns[i].originalField)}

\* C22: in the ALTER of an existing-table save every saved column whose
\* originalField is empty yields ADD COLUMN with its definition and no
\* CHANGE or MODIFY (the ADD COLUMN clauses of its name are those of the
\* columns without originalField and of the tracked columns the table no
\* longer has), also when the table has a column of its Field; that
\* column of the table, when it is the originalField of no saved column,
\* is dropped
C22_UntrackedIsAdded ==
  AlterSent =>
    LET cols == lastSave.args.columns
        cl == SentClauses
    IN  /\ \A i \in 1..Len(cols) :
             ~Truthy(cols[i].originalField) =>
               /\ Clause("ADD COLUMN", cols[i].Field, "", <<>>,
                         buildColumnDef(cols[i])) \in Range(cl)
               /\ CountOp(cl, {"ADD COLUMN"}, cols[i].Field)
                    = Cardinality(Untracked(cols[i].Field))
                      + Cardinality(Stale(cols[i].Field))
        /\ \A x \in Range(FieldsOf(lastSave.seenColumns)) :
             (/\ Untracked(x) # {}
              /\ \A j \in 1..Len(cols) : cols[j].originalField # x)
               => /\ CountOp(cl, {"DROP COLUMN"}, x) = 1
                  /\ CountTarget(cl, {"CHANGE COLUMN", "MODIFY COLUMN"}, x)
                       = 0

\* column b of the table was deleted and a column added in its place was
\* named b: the ALTER adds the one and drops the other
C22_Witness ==
  /\ AlterSent
  /\ Untracked("b") # {}
  /\ HasField(lastSave.seenColumns, "b")
  /\ \A j \in 1..Len(lastSave.args.columns) :
       lastSave.args.columns[j].originalField # "b"
  /\ Len(OfOps(SentClauses, {"ADD COLUMN"})) = 1
  /\ Len(OfOps(SentClauses, {"DROP COLUMN"})) = 1

----------------------------------------------------------------------------
(* App and Sidebar: the tabs and the tree of connections and databases *)

MaxTabs == 2
MaxUuids == 3

\* the saved connections, and the databases and tables of each server
Configs == {"A", "B"}
Databases == {"d1", "d2"}
Tables == {"t"}

\* crypto.randomUUID(): the n-th identifier drawn in this session
UUIDS == <<"u1", "u2", "u3", "u4", "u5">>

randomUUID == UUIDS[sidebar.uuids + 1]

CanDrawUuid == sidebar.uuids < MaxUuids

\* interface Tab; an absent data, or an absent member of it, is undefined
Tab(id, type, connectionId, database, tbl) ==
  [id |-> id, type |-> type, connectionId |-> connectionId,
   database |-> database, table |-> tbl]

\* tabs.find(t => t.type === type && t.data?.connectionId === connectionId
\*                && t.data?.database === database && t.data?.table === table)
existingTab(seen, type, connectionId, database, tbl) ==
  {i \in 1..Len(seen) :
     /\ seen[i].type = type
     /\ seen[i].connectionId = connectionId
     /\ seen[i].database = database
     /\ seen[i].table = tbl}

FirstOf(S) == CHOOSE i \in S : \A j \in S : i <= j

\* handleSelectTable, handleDesignTable and handleSelectDatabase, run by a
\* render that saw the tabs seen: focus the tab when there is one (a forced
\* refresh maps over the tabs of the moment and keeps their list), else
\* append a new tab to the tabs seen and focus it
openOrFocus(seen, type, connectionId, database, tbl) ==
  LET found == existingTab(seen, type, connectionId, database, tbl)
  IN  IF found # {}
      THEN [app EXCEPT !.activeTabId = seen[FirstOf(found)].id]
      ELSE [tabs |-> Append(seen, Tab(randomUUID, type, connectionId,
                                      database, tbl)),
            activeTabId |-> randomUUID]

\* whether openOrFocus draws an identifier
opensTab(seen, type, connectionId, database, tbl) ==
  existingTab(seen, type, connectionId, database, tbl) = {}

drawn(seen, type, connectionId, database, tbl) ==
  IF opensTab(seen, type, connectionId, database, tbl)
  THEN sidebar.uuids + 1 ELSE sidebar.uuids

CanOpen(seen, type, connectionId, database, tbl) ==
  opensTab(seen, type, connectionId, database, tbl) =>
    CanDrawUuid /\ Len(seen) < MaxTabs

\* the rows of the tree that are rendered
DbRowVisible(c) == c \in sidebar.expandedConnections

TableRowVisible(c, d) ==
  DbRowVisible(c) /\ <<c, d>> \in sidebar.expandedDatabases

\* every step of the sidebar but Close Database forgets the last one
Forget(sb) == [sb EXCEPT !.closed = <<>>]

AppFrame == UNCHANGED <<Designer, fnIn, fnOut, viewer>>

\* toggleConnection: collapse an expanded connection; else db:connect
\* (connect of db.ts draws an identifier and keeps the connection under
\* it), setActiveConnection, and expand once the databases are listed
toggleConnection(config, listed) ==
  /\ IF config \in sidebar.expandedConnections
     THEN sidebar' = Forget([sidebar EXCEPT
                       !.expandedConnections = @ \ {config}])
     ELSE /\ CanDrawUuid
          /\ sidebar' = Forget([sidebar EXCEPT
               !.connections = @ \cup {[id |-> randomUUID,
                                        config |-> config]},
               !.uuids = @ + 1,
               !.activeConnectionId = randomUUID,
               !.activeConnectionConfigId = config,
               !.expandedConnections =
                  IF listed THEN @ \cup {config} ELSE @])
  /\ UNCHANGED app
  /\ AppFrame

\* toggleDatabase
toggleDatabase(connectionId, dbName) ==
  /\ DbRowVisible(connectionId)
  /\ LET key == <<connectionId, dbName>>
     IN  IF key \in sidebar.expandedDatabases
         THEN sidebar' = Forget([sidebar EXCEPT
                           !.expandedDatabases = @ \ {key}])
         ELSE IF key \in sidebar.openDatabases
         THEN sidebar' = Forget([sidebar EXCEPT
                           !.expandedDatabases = @ \cup {key}])
         ELSE IF \/ sidebar.activeConnectionConfigId # connectionId
                 \/ sidebar.activeConnectionId = NullValue
         THEN sidebar' = Forget(sidebar)
         ELSE sidebar' = Forget([sidebar EXCEPT
                           !.expandedDatabases = @ \cup {key},
                           !.openDatabases = @ \cup {key}])
  /\ UNCHANGED app
  /\ AppFrame

\* a click on a database row: onSelectDatabase(activeConnectionId, db)
handleSelectDatabase(c, database) ==
  /\ DbRowVisible(c)
  /\ sidebar.activeConnectionId # NullValue
  /\ LET connectionId == sidebar.activeConnectionId
     IN  /\ CanOpen(app.tabs, "db_overview", connectionId, database,
                    NullValue)
         /\ app' = openOrFocus(app.tabs, "db_overview", connectionId,
                               database, NullValue)
         /\ sidebar' = Forget([sidebar EXCEPT !.uuids =
                          drawn(app.tabs, "db_overview", connectionId,
                                database, NullValue)])
  /\ AppFrame

\* what onSelectTable is called with: a click on a table row passes the
\* active connection, a double click in an overview its own connection
SelectTableArgs ==
  {<<sidebar.activeConnectionId, d, t>> :
     d \in {e \in Databases : \E c \in Configs : TableRowVisible(c, e)},
     t \in Tables}
  \cup
  {<<app.tabs[i].connectionId, app.tabs[i].database, t>> :
     i \in {j \in 1..Len(app.tabs) : /\ app.tabs[j].type = "db_overview"
                                      /\ app.tabs[j].id = app.activeTabId},
     t \in Tables}

handleSelectTable(connectionId, database, tbl) ==
  /\ <<connectionId, database, tbl>> \in SelectTableArgs
  /\ CanOpen(app.tabs, "data", connectionId, database, tbl)
  /\ app' = openOrFocus(app.tabs, "data", connectionId, database, tbl)
  /\ sidebar' = Forget([sidebar EXCEPT !.uuids =
                   drawn(app.tabs, "data", connectionId, database, tbl)])
  /\ AppFrame

\* Truncate Table of the table menu, up to its await: the handler keeps the
\* onSelectTable of the render it was created in, hence the tabs of now
handleTruncateTable(c, database, tbl) ==
  /\ TableRowVisible(c, database)
  /\ sidebar.activeConnectionId # NullValue
  /\ sidebar.truncating = <<>>
  /\ sidebar' = Forget([sidebar EXCEPT !.truncating =
                   <<[connectionId |-> sidebar.activeConnectionId,
                      database |-> database, table |-> tbl,
                      tabs |-> app.tabs]>>])
  /\ UNCHANGED app
  /\ AppFrame

\* db:truncate-table answered: onSelectTable(..., true) on success
handleTruncateTable_Resume(success) ==
  /\ sidebar.truncating # <<>>
  /\ LET call == sidebar.truncating[1]
     IN  IF success
         THEN /\ CanOpen(call.tabs, "data", call.connectionId,
                         call.database, call.table)
              /\ app' = openOrFocus(call.tabs, "data", call.connectionId,
                                    call.database, call.table)
              /\ sidebar' = Forget([sidebar EXCEPT
                   !.truncating = <<>>,
                   !.uuids = drawn(call.tabs, "data", call.connectionId,
                                   call.database, call.table)])
         ELSE /\ UNCHANGED app
              /\ sidebar' = Forget([sidebar EXCEPT !.truncating = <<>>])
  /\ AppFrame

\* Design Table of the table menu (tbl a table) and New Table of the
\* database menu (tbl = "", offered for an open database)
handleDesignTable(c, database, tbl) ==
  /\ IF tbl = ""
     THEN DbRowVisible(c) /\ <<c, database>> \in sidebar.openDatabases
     ELSE TableRowVisible(c, database)
  /\ sidebar.activeConnectionId # NullValue
  /\ LET connectionId == sidebar.activeConnectionId
     IN  /\ CanOpen(app.tabs, "design", connectionId, database, tbl)
         /\ app' = openOrFocus(app.tabs, "design", connectionId, database,
                               tbl)
         /\ sidebar' = Forget([sidebar EXCEPT !.uuids =
                          drawn(app.tabs, "design", connectionId, database,
                                tbl)])
  /\ AppFrame

\* const activeTab = tabs.find(t => t.id === activeTabId)
activeTab ==
  {i \in 1..Len(app.tabs) : app.tabs[i].id = app.activeTabId}

\* handleNewQuery: the query tab takes the connection and the database of
\* the active tab, when there is one
handleNewQuery ==
  /\ CanDrawUuid
  /\ Len(app.tabs) < MaxTabs
  /\ LET newTab ==
           IF activeTab # {}
           THEN Tab(randomUUID, "query",
                    app.tabs[FirstOf(activeTab)].connectionId,
                    app.tabs[FirstOf(activeTab)].database, NullValue)
           ELSE Tab(randomUUID, "query", NullValue, NullValue, NullValue)
     IN  app' = [tabs |-> Append(app.tabs, newTab),
                 activeTabId |-> newTab.id]
  /\ sidebar' = Forget([sidebar EXCEPT !.uuids = @ + 1])
  /\ AppFrame

\* a click on a tab: setActiveTabId(tab.id)
setActiveTabId(i) ==
  /\ i \in 1..Len(app.tabs)
  /\ app.tabs[i].id # app.activeTabId
  /\ app' = [app EXCEPT !.activeTabId = app.tabs[i].id]
  /\ sidebar' = Forget(sidebar)
  /\ AppFrame

\* tabs.filter(t => keep(t))
FilterTabs(seen, keep) ==
  SelectSeq(seen, LAMBDA t : t.id \in keep)

\* newTabs.length > 0 ? newTabs[newTabs.length - 1].id : null
lastTabId(newTabs) ==
  IF Len(newTabs) > 0 THEN newTabs[Len(newTabs)].id ELSE NullValue

\* handleCloseTab
closeTab(id) ==
  LET newTabs == FilterTabs(app.tabs,
                   {t.id : t \in {u \in Range(app.tabs) : u.id # id}})
  IN  [tabs |-> newTabs,
       activeTabId |-> IF app.activeTabId = id THEN lastTabId(newTabs)
                       ELSE app.activeTabId]

handleCloseAppTab(i) ==
  /\ i \in 1..Len(app.tabs)
  /\ app' = closeTab(app.tabs[i].id)
  /\ sidebar' = Forget(sidebar)
  /\ AppFrame

\* handleCloseDesigner: the onClose of the designer of the active tab
handleCloseDesigner ==
  /\ app.activeTabId # NullValue
  /\ activeTab # {}
  /\ app.tabs[FirstOf(activeTab)].type = "design"
  /\ app' = closeTab(app.activeTabId)
  /\ sidebar' = Forget(sidebar)
  /\ AppFrame

\* handleCloseDatabase of App
closeDatabase(connectionId, database) ==
  LET newTabs == FilterTabs(app.tabs,
                   {t.id : t \in {u \in Range(app.tabs) :
                      ~(u.connectionId = connectionId
                        /\ u.database = database)}})
  IN  [tabs |-> newTabs,
       activeTabId |->
         IF /\ app.activeTabId # NullValue
            /\ \A i \in 1..Len(newTabs) : newTabs[i].id # app.activeTabId
         THEN lastTabId(newTabs) ELSE app.activeTabId]

\* Close Database of the database menu: handleCloseDatabase of Sidebar,
\* which calls the one of App for the active connection only
handleCloseSidebarDatabase(c, database) ==
  /\ DbRowVisible(c)
  /\ sidebar' = [sidebar EXCEPT
       !.expandedDatabases = @ \ {<<c, database>>},
       !.openDatabases = @ \ {<<c, database>>},
       !.closed = <<[connectionId |-> c, database |-> database]>>]
  /\ IF /\ sidebar.activeConnectionId # NullValue
        /\ sidebar.activeConnectionConfigId = c
     THEN app' = closeDatabase(sidebar.activeConnectionId, database)
     ELSE UNCHANGED app
  /\ AppFrame

NextApp ==
  \/ \E config \in Configs, listed \in BOOLEAN :
       toggleConnection(config, listed)
  \/ \E c \in Configs, d \in Databases : toggleDatabase(c, d)
  \/ \E c \in Configs, d \in Databases : handleSelectDatabase(c, d)
  \/ \E connectionId \in Range(UUIDS), d \in Databases, t \in Tables :
       handleSelectTable(connectionId, d, t)
  \/ \E c \in Configs, d \in Databases, t \in Tables :
       handleTruncateTable(c, d, t)
  \/ \E success \in BOOLEAN : handleTruncateTable_Resume(success)
  \/ \E c \in Configs, d \in Databases, t \in Tables \cup {""} :
       handleDesignTable(c, d, t)
  \/ handleNewQuery
  \/ \E i \in 1..MaxTabs : setActiveTabId(i)
  \/ \E i \in 1..MaxTabs : handleCloseAppTab(i)
  \/ handleCloseDesigner
  \/ \E c \in Configs, d \in Databases : handleCloseSidebarDatabase(c, d)

\* the window just opened: no tab, nothing expanded, no connection
InitAppWindow ==
  /\ InitNew
  /\ budget = [edits |-> MaxEdits, inflight |-> MaxInflight,
               fksFail |-> FALSE]
  /\ fnIn = NoFn
  /\ fnOut = NoFn
  /\ InitApp
  /\ InitSidebar
  /\ viewer = NoViewer

SpecApp == InitAppWindow /\ [][NextApp]_vars

----------------------------------------------------------------------------
(* C23: closing a database closes its tabs *)

\* the tab was opened over a connection made from the saved connection c,
\* on the database d
TabOfDatabase(t, c, d) ==
  /\ t.database = d
  /\ \E k \in sidebar.connections : k.id = t.connectionId /\ k.config = c

\* C23: Close Database of the sidebar removes the database from the open
\* and the expanded sets, closes every tab of that connection and database
\* and no other tab, and leaves the active tab id on a remaining tab or
\* null.
C23_CloseDatabaseClosesItsTabs ==
  [][sidebar'.closed # <<>> =>
       LET c == sidebar'.closed[1].connectionId
           d == sidebar'.closed[1].database
       IN  /\ <<c, d>> \notin sidebar'.openDatabases
           /\ <<c, d>> \notin sidebar'.expandedDatabases
           /\ app'.tabs =
                SelectSeq(app.tabs, LAMBDA t : ~TabOfDatabase(t, c, d))
           /\ \/ app'.activeTabId = NullValue
              \/ \E i \in 1..Len(app'.tabs) :
                   app'.tabs[i].id = app'.activeTabId]_vars

----------------------------------------------------------------------------
(* C29: the tabs of App *)

SameData(t, u) ==
  /\ t.connectionId = u.connectionId
  /\ t.database = u.database
  /\ t.table = u.table

\* C29: the active tab id is null exactly when there are no tabs and is
\* otherwise the id of one of the tabs; no two data tabs and no two design
\* tabs have the same connection, database and table, and no two overview
\* tabs the same connection and database.
C29_TabsWellFormed ==
  /\ (app.activeTabId = NullValue) <=> (Len(app.tabs) = 0)
  /\ app.activeTabId # NullValue =>
       \E i \in 1..Len(app.tabs) : app.tabs[i].id = app.activeTabId
  /\ \A i, j \in 1..Len(app.tabs) :
       /\ i # j
       /\ app.tabs[i].type = app.tabs[j].type
       /\ app.tabs[i].type \in {"data", "design", "db_overview"}
       => ~SameData(app.tabs[i], app.tabs[j])

----------------------------------------------------------------------------
(* C25: the name a save addresses the table by *)

\* a handleSave of the open designer sends its call
SaveInvokeStep == tabOpen /\ Len(saveArgs') > Len(saveArgs)

\* C25: a save of a table that exists in the database (it was opened, or a
\* save of this session created or renamed it) is an ALTER that names the
\* table by its current name: the old table name it passes is the name the
\* table has in the database, so no RENAME TABLE from the empty or from a
\* stale name is issued.
C25_SaveNamesCurrentTable ==
  [][(SaveInvokeStep /\ db.exists) =>
       LET args == saveArgs'[Len(saveArgs')]
       IN  /\ ~args.isNew
           /\ args.oldTableName = db.name]_vars

----------------------------------------------------------------------------
(* C26: edits and loads *)

\* C26: while a load of the snapshot is in flight for the open designer
\* (the first one, or the reload a successful save started), no step is a
\* mutation of the editable snapshot.
C26_NoEditWhileLoading ==
  [][(tabOpen /\ inflight # <<>>) => ~MutationStep]_vars

----------------------------------------------------------------------------
(* C27: what a failed save leaves in the database *)

\* C27: a save that fails leaves the table in the database as it was,
\* its name included.
C27_FailedSaveKeepsDatabase ==
  [][FailedSaveStep => db' = db]_vars

----------------------------------------------------------------------------
(* C28: the columns that indexes and foreign keys name *)

\* C28: in every state of the editor each index row names, as Column_name,
\* the Field of a current column, and so does the COLUMN_NAME of each
\* foreign key that is not marked deleted.
C28_ReferencesNameColumns ==
  Interactive =>
    /\ \A j \in 1..Len(indexes) : HasField(columns, indexes[j].Column_name)
    /\ \A j \in 1..Len(foreignKeys) :
         ~foreignKeys[j].isDeleted =>
           HasField(columns, foreignKeys[j].COLUMN_NAME)

----------------------------------------------------------------------------
(* C24: the SQL preview and the statement of the save *)

\* SQL keywords are compared without regard to their case
UpperKeyword(x) == IF x = "auto_increment" THEN "AUTO_INCREMENT" ELSE x

SameSql(a, b) ==
  /\ Len(a) = Len(b)
  /\ \A i \in 1..Len(a) : UpperKeyword(a[i]) = UpperKeyword(b[i])

\* C24: the SQL preview shows the statement the save executes; in
\* particular the definition of a column, its default value included, is
\* rendered by generateSqlPreview as saveTableStructure renders it.
C24_PreviewRendersAsSave ==
  fnOut # NoFn =>
    SameSql(previewColumnDef(fnIn), buildColumnDef(fnIn))

----------------------------------------------------------------------------
(* DataViewer: the pages of the rows of a table *)

\* the page size (const LIMIT, scaled down), the pages the Next button is
\* followed to, and the calls in flight
LIMIT == 2
MaxPage == 2
MaxFetches == 2
MaxDeletes == 1

\* the rows of the table when the viewer is mounted, by primary key k
TableRows == <<"1", "2", "3">>

\* the value typed into the Value input of a filter
FilterValueInputs == {"3"}

\* getTableData: the condition of one filter on the key column; every
\* operator the viewer sets here reaches the default branch, column = value
Matches(row, filter) == filter.operator = "=" /\ row = filter.value

\* filters.filter(f => f.enabled)
activeFilters(filters) == SelectSeq(filters, LAMBDA f : f.enabled)

\* the rows that satisfy every condition (conditions.join(' AND '))
Filtered(rs, filters) ==
  SelectSeq(rs, LAMBDA row :
    \A i \in 1..Len(filters) : Matches(row, filters[i]))

\* SELECT ... LIMIT ? OFFSET ? with offset = (page - 1) * LIMIT
PageRows(rs, filters, page) ==
  LET found == Filtered(rs, filters)
      offset == (page - 1) * LIMIT
      upto == IF offset + LIMIT < Len(found) THEN offset + LIMIT
              ELSE Len(found)
  IN  SubSeq(found, offset + 1, upto)

\* Math.ceil(res.total / LIMIT) || 1
TotalPages(total) ==
  IF total = 0 THEN 1 ELSE (total + LIMIT - 1) \div LIMIT

\* the call fetchData makes from a render that saw this page and filters
FetchCall(page, filters) ==
  [page |-> page, filters |-> activeFilters(filters)]

\* the viewer just mounted: the effect on the table and the effect on the
\* page each called fetchData, and fetchColumns is awaited
MountedViewer ==
  [data |-> <<>>, loading |-> TRUE, error |-> FALSE, page |-> 1,
   totalPages |-> 1, filters |-> <<>>, columns |-> <<>>,
   selectedKeys |-> {},
   fetches |-> <<FetchCall(1, <<>>), FetchCall(1, <<>>)>>,
   deleting |-> <<>>, rows |-> TableRows, nDeletes |-> 0,
   shown |-> <<>>, applied |-> <<>>]

\* the early returns of the render: Loading data... and Error
ViewerInteractive ==
  /\ ~(viewer.loading /\ viewer.data = <<>>)
  /\ ~viewer.error

ViewerFrame == UNCHANGED <<Designer, fnIn, fnOut, app, sidebar>>

\* fetchData up to its await, called by a render that saw page and filters
fetchData(v, page, filters) ==
  [v EXCEPT !.loading = TRUE, !.error = FALSE,
            !.fetches = Append(@, FetchCall(page, filters))]

\* db:get-table-data answers the oldest call
fetchData_Resume(success) ==
  /\ viewer.fetches # <<>>
  /\ LET call == Head(viewer.fetches)
     IN  viewer' =
           IF success
           THEN [viewer EXCEPT
                   !.data = PageRows(viewer.rows, call.filters, call.page),
                   !.totalPages =
                      TotalPages(Len(Filtered(viewer.rows, call.filters))),
                   !.loading = FALSE,
                   !.fetches = Tail(@),
                   !.shown = <<call>>]
           ELSE [viewer EXCEPT !.error = TRUE, !.loading = FALSE,
                               !.fetches = Tail(@)]
  /\ ViewerFrame

\* db:get-table-structure answers fetchColumns
fetchColumns_Resume ==
  /\ viewer.columns = <<>>
  /\ viewer' = [viewer EXCEPT !.columns = <<[Field |-> "k", Key |-> "PRI"]>>]
  /\ ViewerFrame

CanFetch == Len(viewer.fetches) < MaxFetches

\* the page buttons: setPage(p => p - 1) / setPage(p => p + 1), then the
\* effect on the page: fetchData() and setSelectedKeys(new Set())
setPage(p) ==
  /\ ViewerInteractive
  /\ CanFetch
  /\ \/ p = viewer.page - 1 /\ viewer.page # 1
     \/ p = viewer.page + 1 /\ viewer.page # viewer.totalPages
  /\ viewer' = [fetchData(viewer, p, viewer.filters) EXCEPT
                  !.page = p, !.selectedKeys = {}]
  /\ ViewerFrame

\* the Refresh button
Refresh ==
  /\ ViewerInteractive
  /\ CanFetch
  /\ viewer' = fetchData(viewer, viewer.page, viewer.filters)
  /\ ViewerFrame

\* handleAddFilter
handleAddFilter ==
  /\ ViewerInteractive
  /\ viewer.columns # <<>>
  /\ viewer.filters = <<>>
  /\ viewer' = [viewer EXCEPT !.filters =
                  Append(@, [column |-> viewer.columns[1].Field,
                             operator |-> "=", value |-> "",
                             enabled |-> TRUE])]
  /\ ViewerFrame

\* handleUpdateFilter(id, 'value', value)
handleUpdateFilter(i, value) ==
  /\ ViewerInteractive
  /\ i \in 1..Len(viewer.filters)
  /\ viewer.filters[i].value # value
  /\ viewer' = [viewer EXCEPT !.filters[i].value = value]
  /\ ViewerFrame

\* handleRemoveFilter
handleRemoveFilter(i) ==
  /\ ViewerInteractive
  /\ i \in 1..Len(viewer.filters)
  /\ viewer' = [viewer EXCEPT !.filters = RemoveAt(@, i)]
  /\ ViewerFrame

\* handleApplyFilter: setPage(1) and fetchData() of this render, which
\* still sees the page it was rendered with; when the page changes, the
\* effect on the page calls fetchData() again
handleApplyFilter ==
  /\ ViewerInteractive
  /\ Len(viewer.fetches) + (IF viewer.page # 1 THEN 2 ELSE 1) <= MaxFetches
  /\ LET first == [fetchData(viewer, viewer.page, viewer.filters) EXCEPT
                      !.applied = activeFilters(viewer.filters)]
     IN  viewer' =
           IF viewer.page # 1
           THEN [fetchData(first, 1, viewer.filters) EXCEPT
                   !.page = 1, !.selectedKeys = {}]
           ELSE first
  /\ ViewerFrame

\* handleToggleSelect on a row that is displayed
handleToggleSelect(pkValue) ==
  /\ ViewerInteractive
  /\ viewer.columns # <<>>
  /\ pkValue \in Range(viewer.data)
  /\ viewer' = [viewer EXCEPT !.selectedKeys =
                  IF pkValue \in @ THEN @ \ {pkValue}
                  ELSE @ \cup {pkValue}]
  /\ ViewerFrame

\* handleDeleteSelected up to its await (the user confirms)
handleDeleteSelected ==
  /\ ViewerInteractive
  /\ viewer.selectedKeys # {}
  /\ viewer.columns # <<>>
  /\ viewer.deleting = <<>>
  /\ viewer.nDeletes < MaxDeletes
  /\ viewer' = [viewer EXCEPT
       !.deleting = <<[keys |-> viewer.selectedKeys, page |-> viewer.page,
                       filters |-> viewer.filters]>>,
       !.nDeletes = @ + 1]
  /\ ViewerFrame

\* db:delete-rows answers: on success fetchData() of the render that
\* started the deletion, and the selection is cleared
handleDeleteSelected_Resume(success) ==
  /\ viewer.deleting # <<>>
  /\ LET call == viewer.deleting[1]
     IN  IF success
         THEN /\ CanFetch
              /\ viewer' =
                   [fetchData(viewer, call.page, call.filters) EXCEPT
                      !.rows = SelectSeq(@, LAMBDA k : k \notin call.keys),
                      !.selectedKeys = {},
                      !.deleting = <<>>]
         ELSE viewer' = [viewer EXCEPT !.deleting = <<>>]
  /\ ViewerFrame

NextViewer ==
  \/ \E success \in BOOLEAN : fetchData_Resume(success)
  \/ fetchColumns_Resume
  \/ \E p \in 1..MaxPage : setPage(p)
  \/ Refresh
  \/ handleAddFilter
  \/ \E i \in 1..1, value \in FilterValueInputs : handleUpdateFilter(i, value)
  \/ \E i \in 1..1 : handleRemoveFilter(i)
  \/ handleApplyFilter
  \/ \E pkValue \in Range(TableRows) : handleToggleSelect(pkValue)
  \/ handleDeleteSelected
  \/ \E success \in BOOLEAN : handleDeleteSelected_Resume(success)

\* a data tab was opened and its viewer mounted
InitViewer ==
  /\ InitNew
  /\ budget = [edits |-> MaxEdits, inflight |-> MaxInflight,
               fksFail |-> FALSE]
  /\ fnIn = NoFn
  /\ fnOut = NoFn
  /\ InitApp
  /\ InitSidebar
  /\ viewer = MountedViewer

SpecViewer == InitViewer /\ [][NextViewer]_vars

----------------------------------------------------------------------------
(* C30: the page of the data viewer *)

\* no call of the viewer is awaited, and the rows it shows were fetched
\* under the filters that were applied last (none at first)
ViewerSettled ==
  /\ viewer # NoViewer
  /\ viewer.fetches = <<>>
  /\ viewer.deleting = <<>>
  /\ ~viewer.error
  /\ viewer.shown # <<>>
  /\ viewer.shown[1].filters = viewer.applied

\* C30: once the fetches of the data viewer have completed, its page is
\* between 1 and totalPages, and the rows it displays are the rows of that
\* page under the filters that are applied.
C30_PageWithinPages ==
  ViewerSettled =>
    /\ 1 <= viewer.page
    /\ viewer.page <= viewer.totalPages
    /\ viewer.data = PageRows(viewer.rows, viewer.applied, viewer.page)

============================================================================
